---- MODULE Spec2Model ----
(***************************************************************************)
(* Schema-per-tenant administration procedures (PostgreSQL / Supabase).    *)
(* The state is the content of the public.* tables, the physical schemas   *)
(* and the USAGE privilege of role "authenticated" on them.  Every stored  *)
(* procedure is one action: a procedure call is one transaction, so a      *)
(* RAISE EXCEPTION or a failing statement leaves every table as it was.    *)
(***************************************************************************)
EXTENDS Integers, Sequences, FiniteSets, TLC

\* ---------------------------------------------------------------- bounds
MaxAudit == 3
MaxTime == 1

\* ------------------------------------------------------------- universes
\* rows of auth.users
AuthUsers == {"u1", "u2"}
\* a UUID with no row in auth.users
GhostUser == "u9"
Principals == AuthUsers \cup {GhostUser}
\* schemas of the database: acme does not exist at first, beta exists and is empty,
\* public is the system schema
SchemaNames == {"acme", "beta", "public"}
\* the names calls are made with: a tenant name and a name that never is a tenant
TenantNames == {"acme"}
CallNames == TenantNames \cup {"public"}
\* a name of 64 characters
LongName == "aaaaaaaaaaaaaaaaaaaaaaaaaaaaaaaaaaaaaaaaaaaaaaaaaaaaaaaaaaaaaaaa"
\* the names a tenant is created with: the two names that pass every check, and
\* names that the procedure or the route refuses
NameInputs ==
  {"acme", "beta", "public", "auth", "supabase", "vault", "pg_temp", "pgbouncer",
   "supabase_x", "ab", "Acme", "9abc", "ab-c", LongName}
\* the names information_schema.schemata is asked for
AllNames == SchemaNames \cup NameInputs
DefaultTables == {"settings", "users", "audit_log"}
TableNames == DefaultTables \cup {"tenants", "users", "orders"}
AdminRoles == {"super_admin", "admin", "viewer"}
AccessLevels == {"read", "write", "admin"}
\* expires_at IS NULL
NULL == -1
\* marker of a schema that is not in information_schema.schemata
Absent == {"<absent>"}
\* the database sessions of the clients that call concurrently
Sessions == {"s1", "s2"}
\* the storage buckets
BucketIds == {"bk1", "beta"}

VARIABLES
  admin_users,         \* set of rows [id, role, is_active]
  tenants,             \* set of rows [schema_name, status, created_by]
  user_schema_access,  \* set of rows [user_id, tenant_schema, access_level, granted_by, granted_at, expires_at]
  admin_audit_log,     \* sequence of rows [user_id, action, resource_id, details]
  schemata,            \* schema name -> Absent, or the set of its base tables
  usage,               \* schemas on which role authenticated holds USAGE
  now,                 \* NOW()
  last,                \* the step taken last: the call, its arguments and its outcome
  sessions,            \* database session -> the call in flight in it, statement by statement
  columns,             \* information_schema.columns: set of <<schema, table, column>>
  foreign_keys,        \* FOREIGN KEY constraints: set of rows [schema, table, name, column,
                       \*   ref_schema, ref_table, ref_column]
  profiles,            \* rows of the users tables: set of rows [schema, id, auth_user_id, email, role]
  tenant_buckets,      \* set of rows [tenant_schema, bucket_id]
  storage,             \* the buckets of Supabase Storage
  response             \* what the route handler or the profile procedure that ran last returned

dbvars == <<admin_users, tenants, user_schema_access, admin_audit_log, schemata, usage>>
\* the objects inside the tenant schemas and the rows that reference a tenant
objvars == <<columns, foreign_keys, profiles, tenant_buckets>>
\* what only the route handlers of the web application touch
webvars == <<storage, response>>
vars == <<admin_users, tenants, user_schema_access, admin_audit_log, schemata, usage, now, last,
          sessions, columns, foreign_keys, profiles, tenant_buckets, storage, response>>

\* ------------------------------------------------------ helper functions
is_admin(uid) ==
  \E a \in admin_users : a.id = uid /\ a.is_active = TRUE

is_super_admin(uid) ==
  \E a \in admin_users : a.id = uid /\ a.role = "super_admin" /\ a.is_active = TRUE

\* has_schema_access without the "OR is_admin()" of its last line
has_schema_access_NoAdminBypass(uid, schema_name, required_level) ==
  \E usa \in user_schema_access :
     /\ usa.user_id = uid
     /\ usa.tenant_schema = schema_name
     /\ (usa.expires_at = NULL \/ usa.expires_at > now)
     /\ \/ required_level = "read"
        \/ (required_level = "write" /\ usa.access_level \in {"write", "admin"})
        \/ (required_level = "admin" /\ usa.access_level = "admin")

\* has_schema_access without the test of expires_at
has_schema_access_NoExpiry(uid, schema_name, required_level) ==
  \/ \E usa \in user_schema_access :
        /\ usa.user_id = uid
        /\ usa.tenant_schema = schema_name
        /\ \/ required_level = "read"
           \/ (required_level = "write" /\ usa.access_level \in {"write", "admin"})
           \/ (required_level = "admin" /\ usa.access_level = "admin")
  \/ is_admin(uid)

has_schema_access(uid, schema_name, required_level) ==
  \/ \E usa \in user_schema_access :
        /\ usa.user_id = uid
        /\ usa.tenant_schema = schema_name
        /\ (usa.expires_at = NULL \/ usa.expires_at > now)
        /\ \/ required_level = "read"
           \/ (required_level = "write" /\ usa.access_level \in {"write", "admin"})
           \/ (required_level = "admin" /\ usa.access_level = "admin")
  \/ is_admin(uid)

TenantExists(schema_name) ==
  \E t \in tenants : t.schema_name = schema_name

TenantHasStatus(schema_name, status) ==
  \E t \in tenants : t.schema_name = schema_name /\ t.status = status

\* the keys of a details JSONB that the procedures set; "null" is an absent key
Details(target_user, schema, level, role) ==
  [target_user |-> target_user, schema |-> schema, level |-> level, role |-> role]

NoDetails == Details("null", "null", "null", "null")

AuditRow(uid, action, resource_id, details) ==
  [user_id |-> uid, action |-> action, resource_id |-> resource_id, details |-> details]

Call(op, uid, schema, target, result) ==
  [op |-> op, caller |-> uid, schema |-> schema, target |-> target, result |-> result]

\* a session with no call in flight
Idle ==
  [pc |-> "idle", op |-> "none", caller |-> "u1", schema |-> "public", target |-> "u1",
   level |-> "null", expires_at |-> NULL, at |-> 0, result |-> "none"]

\* the columns of the tables that create_tenant_schema creates
DefaultColumnNames(table) ==
  CASE table = "settings" -> {"id", "key", "value", "created_at", "updated_at"}
    [] table = "users" -> {"id", "auth_user_id", "email", "name", "role", "metadata",
                           "created_at", "updated_at"}
    [] table = "audit_log" -> {"id", "table_name", "record_id", "action", "old_data",
                               "new_data", "performed_by", "performed_at"}
    [] OTHER -> {}

DefaultColumns(schema) ==
  UNION {{<<schema, t, c>> : c \in DefaultColumnNames(t)} : t \in DefaultTables}

ForeignKey(schema, table, name, column, ref_schema, ref_table, ref_column) ==
  [schema |-> schema, table |-> table, name |-> name, column |-> column,
   ref_schema |-> ref_schema, ref_table |-> ref_table, ref_column |-> ref_column]

\* auth_user_id UUID UNIQUE REFERENCES auth.users(id) ON DELETE CASCADE
DefaultForeignKeys(schema) ==
  {ForeignKey(schema, "users", "users_auth_user_id_fkey", "auth_user_id", "auth", "users", "id")}

\* the key columns of the system tables
SystemColumns ==
  {<<"public", "tenants", "id">>, <<"public", "tenants", "schema_name">>,
   <<"auth", "users", "id">>}

\* DROP SCHEMA ... CASCADE: the objects of the schema and what depends on them
ColumnsAfterDrop(schema_name) ==
  {c \in columns : c[1] # schema_name}

ForeignKeysAfterDrop(schema_name) ==
  {fk \in foreign_keys : fk.schema # schema_name /\ fk.ref_schema # schema_name}

ProfilesAfterDrop(schema_name) ==
  {pr \in profiles : pr.schema # schema_name}

\* tenant_schema TEXT NOT NULL REFERENCES public.tenants(schema_name) ON DELETE CASCADE
BucketRowsAfterDelete(schema_name) ==
  {tb \in tenant_buckets : tb.tenant_schema # schema_name}

\* no route handler has answered yet
NoResponse ==
  [status |-> 0, error |-> "none", failed |-> {}, deletedBuckets |-> 0]

\* a raised exception aborts the transaction of the call
Raise(op, uid, schema, target, result) ==
  /\ last' = Call(op, uid, schema, target, result)
  /\ UNCHANGED <<dbvars, now>>

\* ------------------------------------------------------------------ Init
Init ==
  /\ admin_users = {[id |-> "u1", role |-> "super_admin", is_active |-> TRUE]}
  /\ tenants = {}
  /\ user_schema_access = {}
  /\ admin_audit_log = <<>>
  /\ schemata = [s \in AllNames |->
                   CASE s = "public" -> {"tenants"}
                     [] s = "auth" -> {"users"}
                     [] s = "beta" -> {}
                     [] OTHER -> Absent]
  /\ usage = {"public"}
  /\ now = 0
  /\ last = Call("init", "u1", "public", "u1", "ok")
  /\ sessions = [s \in Sessions |-> Idle]
  /\ columns = SystemColumns
  /\ foreign_keys = {}
  /\ profiles = {}
  /\ tenant_buckets = {}
  /\ storage = {}
  /\ response = NoResponse

Tick ==
  /\ now < MaxTime
  /\ now' = now + 1
  /\ last' = Call("tick", "u1", "public", "u1", "ok")
  /\ UNCHANGED dbvars

\* ------------------------------------------------- schema name validation
Lower == {"a","b","c","d","e","f","g","h","i","j","k","l","m",
          "n","o","p","q","r","s","t","u","v","w","x","y","z"}
Digits == {"0","1","2","3","4","5","6","7","8","9"}

\* the characters of the names of SchemaNames and of NameInputs
NameChars(n) ==
  CASE n = "acme" -> <<"a","c","m","e">>
    [] n = "beta" -> <<"b","e","t","a">>
    [] n = "public" -> <<"p","u","b","l","i","c">>
    [] n = "auth" -> <<"a","u","t","h">>
    [] n = "supabase" -> <<"s","u","p","a","b","a","s","e">>
    [] n = "vault" -> <<"v","a","u","l","t">>
    [] n = "pg_temp" -> <<"p","g","_","t","e","m","p">>
    [] n = "pgbouncer" -> <<"p","g","b","o","u","n","c","e","r">>
    [] n = "supabase_x" -> <<"s","u","p","a","b","a","s","e","_","x">>
    [] n = "ab" -> <<"a","b">>
    [] n = "Acme" -> <<"A","c","m","e">>
    [] n = "9abc" -> <<"9","a","b","c">>
    [] n = "ab-c" -> <<"a","b","-","c">>
    [] n = LongName -> [i \in 1..64 |-> "a"]
    [] OTHER -> <<>>

\* p_schema_name ~ '^[a-z][a-z0-9_]*$'
MatchesNameFormat(n) ==
  LET c == NameChars(n) IN
    /\ Len(c) >= 1
    /\ c[1] \in Lower
    /\ \A i \in 2..Len(c) : c[i] \in (Lower \cup Digits \cup {"_"})

\* c LIKE prefix || '_%' : the prefix, then one character, then anything
LikePrefixAny(c, prefix) ==
  /\ Len(c) >= Len(prefix) + 1
  /\ \A i \in 1..Len(prefix) : c[i] = prefix[i]

IsReservedName(n) ==
  \/ n \in {"public", "auth", "storage", "graphql", "realtime", "supabase",
            "extensions", "vault", "pgsodium"}
  \/ LikePrefixAny(NameChars(n), <<"p","g">>)
  \/ LikePrefixAny(NameChars(n), <<"s","u","p","a","b","a","s","e">>)

ProtectedSchemas ==
  {"public", "auth", "storage", "graphql", "realtime", "supabase_functions", "extensions"}

\* ------------------------------------------------------ tenant lifecycle
\* the checks of create_tenant_schema, in the order of the code
create_tenant_schema_check(uid, p_schema_name) ==
  IF ~is_admin(uid) THEN "access_denied"
  ELSE IF ~MatchesNameFormat(p_schema_name) THEN "invalid_name"
  ELSE IF Len(NameChars(p_schema_name)) < 3 \/ Len(NameChars(p_schema_name)) > 63
    THEN "invalid_length"
  ELSE IF IsReservedName(p_schema_name) THEN "reserved"
  ELSE "ok"

\* INSERT INTO tenants ... ON CONFLICT (schema_name) DO NOTHING
InsertTenant(uid, p_schema_name) ==
  IF TenantExists(p_schema_name) THEN tenants
  ELSE tenants \cup {[schema_name |-> p_schema_name, status |-> "active", created_by |-> uid]}

create_tenant_schema(uid, p_schema_name, ddl_ok) ==
  LET chk == create_tenant_schema_check(uid, p_schema_name)
      v_schema_exists == schemata[p_schema_name] # Absent
      v_schema_table_count ==
        IF v_schema_exists THEN Cardinality(schemata[p_schema_name]) ELSE 0
  IN
  IF chk # "ok" THEN Raise("create", uid, p_schema_name, uid, chk) /\ UNCHANGED objvars
  ELSE IF v_schema_exists /\ v_schema_table_count > 0 THEN
    \* register only
    /\ Len(admin_audit_log) < MaxAudit
    /\ tenants' = InsertTenant(uid, p_schema_name)
    /\ admin_audit_log' = Append(admin_audit_log,
         AuditRow(uid, "REGISTER_EXISTING", p_schema_name, NoDetails))
    /\ last' = Call("create", uid, p_schema_name, uid, "ok")
    /\ UNCHANGED <<admin_users, user_schema_access, schemata, usage, now, objvars>>
  ELSE IF ~ddl_ok
    THEN Raise("create", uid, p_schema_name, uid, "ddl_failed") /\ UNCHANGED objvars
  ELSE
    /\ Len(admin_audit_log) < MaxAudit
    /\ schemata' = [schemata EXCEPT ![p_schema_name] = DefaultTables]
    /\ tenants' = InsertTenant(uid, p_schema_name)
    /\ usage' = usage \cup {p_schema_name}
    /\ admin_audit_log' = Append(admin_audit_log,
         AuditRow(uid, IF v_schema_exists THEN "INIT_EXISTING_EMPTY" ELSE "CREATE",
                  p_schema_name, NoDetails))
    /\ columns' = columns \cup DefaultColumns(p_schema_name)
    /\ foreign_keys' = foreign_keys \cup DefaultForeignKeys(p_schema_name)
    /\ last' = Call("create", uid, p_schema_name, uid, "ok")
    /\ UNCHANGED <<admin_users, user_schema_access, now, profiles, tenant_buckets>>

\* an UPDATE of tenants without its WHERE clause
SetStatus_AllRows(schema_name, status) ==
  {[t EXCEPT !.status = status] : t \in tenants}

\* UPDATE tenants SET status = ... WHERE schema_name = ...
SetStatus(schema_name, status) ==
  {IF t.schema_name = schema_name THEN [t EXCEPT !.status = status] ELSE t : t \in tenants}

\* suspend_tenant that accepts a tenant that is suspended already
suspend_tenant_check_Idempotent(uid, schema_name) ==
  IF ~is_admin(uid) THEN "access_denied"
  ELSE IF ~TenantExists(schema_name) THEN "not_found"
  ELSE "ok"

suspend_tenant_check(uid, schema_name) ==
  IF ~is_admin(uid) THEN "access_denied"
  ELSE IF ~TenantExists(schema_name) THEN "not_found"
  ELSE IF TenantHasStatus(schema_name, "suspended") THEN "already"
  ELSE "ok"

suspend_tenant(uid, schema_name, ddl_ok) ==
  LET chk == suspend_tenant_check(uid, schema_name) IN
  IF chk # "ok" THEN Raise("suspend", uid, schema_name, uid, chk)
  ELSE IF ~ddl_ok \/ schemata[schema_name] = Absent
    THEN Raise("suspend", uid, schema_name, uid, "ddl_failed")
  ELSE
    /\ Len(admin_audit_log) < MaxAudit
    /\ usage' = usage \ {schema_name}
    /\ tenants' = SetStatus(schema_name, "suspended")
    /\ admin_audit_log' = Append(admin_audit_log, AuditRow(uid, "SUSPEND", schema_name, NoDetails))
    /\ last' = Call("suspend", uid, schema_name, uid, "ok")
    /\ UNCHANGED <<admin_users, user_schema_access, schemata, now>>

activate_tenant_check(uid, schema_name) ==
  IF ~is_admin(uid) THEN "access_denied"
  ELSE IF ~TenantExists(schema_name) THEN "not_found"
  ELSE IF TenantHasStatus(schema_name, "active") THEN "already"
  ELSE "ok"

activate_tenant(uid, schema_name, ddl_ok) ==
  LET chk == activate_tenant_check(uid, schema_name) IN
  IF chk # "ok" THEN Raise("activate", uid, schema_name, uid, chk)
  ELSE IF ~ddl_ok \/ schemata[schema_name] = Absent
    THEN Raise("activate", uid, schema_name, uid, "ddl_failed")
  ELSE
    /\ Len(admin_audit_log) < MaxAudit
    /\ usage' = usage \cup {schema_name}
    /\ tenants' = SetStatus(schema_name, "active")
    /\ admin_audit_log' = Append(admin_audit_log, AuditRow(uid, "ACTIVATE", schema_name, NoDetails))
    /\ last' = Call("activate", uid, schema_name, uid, "ok")
    /\ UNCHANGED <<admin_users, user_schema_access, schemata, now>>

\* delete_tenant_schema guarded by is_admin() instead of is_super_admin()
delete_tenant_schema_check_AnyAdmin(uid, schema_name) ==
  IF ~is_admin(uid) THEN "access_denied"
  ELSE IF schema_name \in ProtectedSchemas THEN "protected"
  ELSE IF ~TenantExists(schema_name) THEN "not_found"
  ELSE "ok"

delete_tenant_schema_check(uid, schema_name) ==
  IF ~is_super_admin(uid) THEN "access_denied"
  ELSE IF schema_name \in ProtectedSchemas THEN "protected"
  ELSE IF ~TenantExists(schema_name) THEN "not_found"
  ELSE "ok"

\* delete_tenant_schema without the removal of the access rows
DeleteAccessOfSchema_Kept(schema_name) ==
  user_schema_access

\* DELETE FROM user_schema_access WHERE tenant_schema = schema_name
DeleteAccessOfSchema(schema_name) ==
  {usa \in user_schema_access : usa.tenant_schema # schema_name}

\* DELETE FROM tenants WHERE schema_name = ...
DeleteTenantRow(schema_name) ==
  {t \in tenants : t.schema_name # schema_name}

\* a delete that also removes the audit rows about the schema
LogDelete_Purge(uid, schema_name) ==
  Append(SelectSeq(admin_audit_log, LAMBDA r : r.resource_id # schema_name),
         AuditRow(uid, "DELETE", schema_name, NoDetails))

\* INSERT INTO admin_audit_log ... 'DELETE', the first statement after the checks
LogDelete(uid, schema_name) ==
  Append(admin_audit_log, AuditRow(uid, "DELETE", schema_name, NoDetails))

\* the statements of delete_tenant_schema in order: audit, access rows, DROP SCHEMA,
\* tenant row.  A statement that fails aborts the transaction, and the audit row
\* inserted by the first statement is rolled back with the rest.
delete_tenant_schema(uid, schema_name, ddl_ok) ==
  LET chk == delete_tenant_schema_check(uid, schema_name) IN
  IF chk # "ok" THEN Raise("delete", uid, schema_name, uid, chk) /\ UNCHANGED objvars
  ELSE IF ~ddl_ok
    THEN Raise("delete", uid, schema_name, uid, "ddl_failed") /\ UNCHANGED objvars
  ELSE
    /\ Len(admin_audit_log) < MaxAudit
    /\ admin_audit_log' = LogDelete(uid, schema_name)
    /\ user_schema_access' = DeleteAccessOfSchema(schema_name)
    /\ schemata' = [schemata EXCEPT ![schema_name] = Absent]
    /\ usage' = usage \ {schema_name}
    /\ columns' = ColumnsAfterDrop(schema_name)
    /\ foreign_keys' = ForeignKeysAfterDrop(schema_name)
    /\ profiles' = ProfilesAfterDrop(schema_name)
    /\ tenants' = DeleteTenantRow(schema_name)
    /\ tenant_buckets' = BucketRowsAfterDelete(schema_name)
    /\ last' = Call("delete", uid, schema_name, uid, "ok")
    /\ UNCHANGED <<admin_users, now>>

\* ------------------------------------------------------- access control
grant_schema_access_check(uid, target_user_id, target_schema, access_level) ==
  IF ~is_admin(uid) THEN "access_denied"
  ELSE IF access_level \notin {"read", "write", "admin"} THEN "invalid_level"
  ELSE IF ~TenantExists(target_schema) THEN "not_found"
  ELSE IF target_user_id \notin AuthUsers THEN "user_not_found"
  ELSE "ok"

\* INSERT INTO user_schema_access ... ON CONFLICT (user_id, tenant_schema) DO UPDATE SET ...
\* a plain INSERT into a table without the UNIQUE (user_id, tenant_schema) constraint
UpsertAccessAt_InsertOnly(uid, target_user_id, target_schema, access_level, expires_at, at) ==
  user_schema_access \cup
    {[user_id |-> target_user_id, tenant_schema |-> target_schema,
      access_level |-> access_level, granted_by |-> uid,
      granted_at |-> at, expires_at |-> expires_at]}

\* at is NOW(), the time at which the transaction of the call started
UpsertAccessAt(uid, target_user_id, target_schema, access_level, expires_at, at) ==
  IF \E usa \in user_schema_access :
       usa.user_id = target_user_id /\ usa.tenant_schema = target_schema
  THEN {IF usa.user_id = target_user_id /\ usa.tenant_schema = target_schema
          THEN [usa EXCEPT !.access_level = access_level, !.granted_by = uid,
                           !.granted_at = at, !.expires_at = expires_at]
          ELSE usa : usa \in user_schema_access}
  ELSE user_schema_access \cup
         {[user_id |-> target_user_id, tenant_schema |-> target_schema,
           access_level |-> access_level, granted_by |-> uid,
           granted_at |-> at, expires_at |-> expires_at]}

UpsertAccess(uid, target_user_id, target_schema, access_level, expires_at) ==
  UpsertAccessAt(uid, target_user_id, target_schema, access_level, expires_at, now)

grant_schema_access(uid, target_user_id, target_schema, access_level, expires_at) ==
  LET chk == grant_schema_access_check(uid, target_user_id, target_schema, access_level) IN
  IF chk # "ok" THEN Raise("grant", uid, target_schema, target_user_id, chk)
  ELSE
    /\ Len(admin_audit_log) < MaxAudit
    /\ user_schema_access' =
         UpsertAccess(uid, target_user_id, target_schema, access_level, expires_at)
    /\ admin_audit_log' = Append(admin_audit_log,
         AuditRow(uid, "GRANT_ACCESS", "access_id",
                  Details(target_user_id, target_schema, access_level, "null")))
    /\ last' = Call("grant", uid, target_schema, target_user_id, "ok")
    /\ UNCHANGED <<admin_users, tenants, schemata, usage, now>>

\* a DELETE that matches on the user only when the row is expired
DeleteAccess_ExpiredOnly(target_user_id, target_schema) ==
  {usa \in user_schema_access :
     ~(usa.user_id = target_user_id /\ usa.tenant_schema = target_schema
       /\ usa.expires_at # NULL /\ usa.expires_at <= now)}

\* DELETE FROM user_schema_access WHERE user_id = ... AND tenant_schema = ...
DeleteAccess(target_user_id, target_schema) ==
  {usa \in user_schema_access :
     ~(usa.user_id = target_user_id /\ usa.tenant_schema = target_schema)}

\* revoke_schema_access without the admin check
revoke_schema_access_check_Open(uid) ==
  "ok"

revoke_schema_access_check(uid) ==
  IF ~is_admin(uid) THEN "access_denied" ELSE "ok"

revoke_schema_access(uid, target_user_id, target_schema) ==
  LET chk == revoke_schema_access_check(uid) IN
  IF chk # "ok" THEN Raise("revoke", uid, target_schema, target_user_id, chk)
  ELSE
    /\ Len(admin_audit_log) < MaxAudit
    /\ user_schema_access' = DeleteAccess(target_user_id, target_schema)
    /\ admin_audit_log' = Append(admin_audit_log,
         AuditRow(uid, "REVOKE_ACCESS", "null",
                  Details(target_user_id, target_schema, "null", "null")))
    /\ last' = Call("revoke", uid, target_schema, target_user_id, "ok")
    /\ UNCHANGED <<admin_users, tenants, schemata, usage, now>>

promote_to_admin_check(uid, admin_role) ==
  IF ~is_super_admin(uid) THEN "access_denied"
  ELSE IF admin_role \notin {"admin", "viewer"} THEN "invalid_role"
  ELSE "ok"

\* INSERT INTO admin_users SELECT ... FROM auth.users WHERE id = target
\* ON CONFLICT (id) DO UPDATE SET role, is_active = true
UpsertAdmin(target_user_id, admin_role) ==
  IF target_user_id \notin AuthUsers THEN admin_users
  ELSE IF \E a \in admin_users : a.id = target_user_id
  THEN {IF a.id = target_user_id
          THEN [a EXCEPT !.role = admin_role, !.is_active = TRUE]
          ELSE a : a \in admin_users}
  ELSE admin_users \cup {[id |-> target_user_id, role |-> admin_role, is_active |-> TRUE]}

promote_to_admin(uid, target_user_id, admin_role) ==
  LET chk == promote_to_admin_check(uid, admin_role) IN
  IF chk # "ok" THEN Raise("promote", uid, "public", target_user_id, chk)
  ELSE
    /\ Len(admin_audit_log) < MaxAudit
    /\ admin_users' = UpsertAdmin(target_user_id, admin_role)
    /\ admin_audit_log' = Append(admin_audit_log,
         AuditRow(uid, "PROMOTE_ADMIN", target_user_id,
                  Details("null", "null", "null", admin_role)))
    /\ last' = Call("promote", uid, "public", target_user_id, "ok")
    /\ UNCHANGED <<tenants, user_schema_access, schemata, usage, now>>

\* revoke_admin without the test of target_user_id = auth.uid()
revoke_admin_check_NoSelf(uid, target_user_id) ==
  IF ~is_super_admin(uid) THEN "access_denied"
  ELSE "ok"

revoke_admin_check(uid, target_user_id) ==
  IF ~is_super_admin(uid) THEN "access_denied"
  ELSE IF target_user_id = uid THEN "self"
  ELSE "ok"

\* a revoke that deletes the row of the target
DeactivateAdmin_Delete(target_user_id) ==
  {a \in admin_users : a.id # target_user_id}

\* UPDATE admin_users SET is_active = false WHERE id = target
DeactivateAdmin(target_user_id) ==
  {IF a.id = target_user_id THEN [a EXCEPT !.is_active = FALSE] ELSE a : a \in admin_users}

revoke_admin(uid, target_user_id) ==
  LET chk == revoke_admin_check(uid, target_user_id) IN
  IF chk # "ok" THEN Raise("revoke_admin", uid, "public", target_user_id, chk)
  ELSE
    /\ Len(admin_audit_log) < MaxAudit
    /\ admin_users' = DeactivateAdmin(target_user_id)
    /\ admin_audit_log' = Append(admin_audit_log,
         AuditRow(uid, "REVOKE_ADMIN", target_user_id, NoDetails))
    /\ last' = Call("revoke_admin", uid, "public", target_user_id, "ok")
    /\ UNCHANGED <<tenants, user_schema_access, schemata, usage, now>>

\* ------------------------------------------------------------------- DDL
\* the table names the DDL procedures are called with, and their characters
TableChars(n) ==
  CASE n = "orders" -> <<"o","r","d","e","r","s">>
    [] n = "Orders" -> <<"O","r","d","e","r","s">>
    [] n = "settings" -> <<"s","e","t","t","i","n","g","s">>
    [] n = "users" -> <<"u","s","e","r","s">>
    [] n = "audit_log" -> <<"a","u","d","i","t","_","l","o","g">>
    [] n = "tenants" -> <<"t","e","n","a","n","t","s">>
    [] OTHER -> <<>>

\* table_name ~ '^[a-z][a-z0-9_]*$'
MatchesTableFormat(n) ==
  LET c == TableChars(n) IN
    /\ Len(c) >= 1
    /\ c[1] \in Lower
    /\ \A i \in 2..Len(c) : c[i] \in (Lower \cup Digits \cup {"_"})

\* the checks of create_table
create_table_check(uid, target_schema, table_name) ==
  IF ~has_schema_access(uid, target_schema, "write") THEN "access_denied"
  ELSE IF ~MatchesTableFormat(table_name) THEN "invalid_name"
  ELSE IF schemata[target_schema] # Absent /\ table_name \in schemata[target_schema]
    THEN "already"
  ELSE "ok"

\* the columns argument of create_table: [{"name": "id", "primary_key": true}]
NewTableColumns == {"id"}

create_table(uid, target_schema, table_name, ddl_ok) ==
  LET chk == create_table_check(uid, target_schema, table_name) IN
  IF chk # "ok" THEN Raise("create_table", uid, target_schema, uid, chk) /\ UNCHANGED objvars
  ELSE IF ~ddl_ok \/ schemata[target_schema] = Absent
    THEN Raise("create_table", uid, target_schema, uid, "ddl_failed") /\ UNCHANGED objvars
  ELSE
    /\ Len(admin_audit_log) < MaxAudit
    /\ schemata' = [schemata EXCEPT ![target_schema] = @ \cup {table_name}]
    /\ admin_audit_log' = Append(admin_audit_log,
         AuditRow(uid, "CREATE_TABLE", target_schema \o "." \o table_name, NoDetails))
    /\ columns' = columns \cup {<<target_schema, table_name, c>> : c \in NewTableColumns}
    /\ last' = Call("create_table", uid, target_schema, uid, "ok")
    /\ UNCHANGED <<admin_users, tenants, user_schema_access, usage, now,
                   foreign_keys, profiles, tenant_buckets>>

\* the column names the DDL procedures are called with, and their characters
ColumnInputs == {"id", "note", "Note"}

ColumnChars(n) ==
  CASE n = "id" -> <<"i","d">>
    [] n = "note" -> <<"n","o","t","e">>
    [] n = "Note" -> <<"N","o","t","e">>
    [] OTHER -> <<>>

\* column_name ~ '^[a-z][a-z0-9_]*$'
MatchesColumnFormat(n) ==
  LET c == ColumnChars(n) IN
    /\ Len(c) >= 1
    /\ c[1] \in Lower
    /\ \A i \in 2..Len(c) : c[i] \in (Lower \cup Digits \cup {"_"})

TableExists(target_schema, target_table) ==
  schemata[target_schema] # Absent /\ target_table \in schemata[target_schema]

add_column_check(uid, target_schema, target_table, column_name) ==
  IF ~has_schema_access(uid, target_schema, "write") THEN "access_denied"
  ELSE IF ~MatchesColumnFormat(column_name) THEN "invalid_name"
  ELSE IF <<target_schema, target_table, column_name>> \in columns THEN "already"
  ELSE "ok"

\* ALTER TABLE ... ADD COLUMN fails when the table does not exist
add_column(uid, target_schema, target_table, column_name, ddl_ok) ==
  LET chk == add_column_check(uid, target_schema, target_table, column_name) IN
  IF chk # "ok" THEN Raise("add_column", uid, target_schema, uid, chk) /\ UNCHANGED objvars
  ELSE IF ~ddl_ok \/ ~TableExists(target_schema, target_table)
    THEN Raise("add_column", uid, target_schema, uid, "ddl_failed") /\ UNCHANGED objvars
  ELSE
    /\ Len(admin_audit_log) < MaxAudit
    /\ columns' = columns \cup {<<target_schema, target_table, column_name>>}
    /\ admin_audit_log' = Append(admin_audit_log,
         AuditRow(uid, "ADD_COLUMN",
                  target_schema \o "." \o target_table \o "." \o column_name, NoDetails))
    /\ last' = Call("add_column", uid, target_schema, uid, "ok")
    /\ UNCHANGED <<admin_users, tenants, user_schema_access, schemata, usage, now,
                   foreign_keys, profiles, tenant_buckets>>

ReferentialActions == {"NO ACTION", "RESTRICT", "CASCADE", "SET NULL", "SET DEFAULT"}

add_foreign_key_check(uid, target_schema, on_delete, on_update) ==
  IF ~has_schema_access(uid, target_schema, "write") THEN "access_denied"
  ELSE IF on_delete \notin ReferentialActions THEN "invalid_on_delete"
  ELSE IF on_update \notin ReferentialActions THEN "invalid_on_update"
  ELSE "ok"

\* constraint_name := target_table || '_' || column_name || '_fkey'
FkeyName(target_table, column_name) ==
  target_table \o "_" \o column_name \o "_fkey"

\* ALTER TABLE ... ADD CONSTRAINT fails when a column of the two is missing or when
\* the table has a constraint of that name already
add_foreign_key(uid, target_schema, target_table, column_name, ref_schema, ref_table, ref_column, on_delete, on_update, ddl_ok) ==
  LET chk == add_foreign_key_check(uid, target_schema, on_delete, on_update)
      constraint_name == FkeyName(target_table, column_name)
  IN
  IF chk # "ok" THEN Raise("add_foreign_key", uid, target_schema, uid, chk) /\ UNCHANGED objvars
  ELSE IF \/ ~ddl_ok
          \/ <<target_schema, target_table, column_name>> \notin columns
          \/ <<ref_schema, ref_table, ref_column>> \notin columns
          \/ \E fk \in foreign_keys :
               fk.schema = target_schema /\ fk.table = target_table /\ fk.name = constraint_name
    THEN Raise("add_foreign_key", uid, target_schema, uid, "ddl_failed") /\ UNCHANGED objvars
  ELSE
    /\ Len(admin_audit_log) < MaxAudit
    /\ foreign_keys' = foreign_keys \cup
         {ForeignKey(target_schema, target_table, constraint_name, column_name,
                     ref_schema, ref_table, ref_column)}
    /\ admin_audit_log' = Append(admin_audit_log,
         AuditRow(uid, "ADD_FOREIGN_KEY", constraint_name, NoDetails))
    /\ last' = Call("add_foreign_key", uid, target_schema, uid, "ok")
    /\ UNCHANGED <<admin_users, tenants, user_schema_access, schemata, usage, now,
                   columns, profiles, tenant_buckets>>

drop_foreign_key_check(uid, target_schema) ==
  IF ~has_schema_access(uid, target_schema, "write") THEN "access_denied" ELSE "ok"

\* ALTER TABLE ... DROP CONSTRAINT fails when the table has no constraint of that name
drop_foreign_key(uid, target_schema, target_table, constraint_name, ddl_ok) ==
  LET chk == drop_foreign_key_check(uid, target_schema) IN
  IF chk # "ok" THEN Raise("drop_foreign_key", uid, target_schema, uid, chk) /\ UNCHANGED objvars
  ELSE IF \/ ~ddl_ok
          \/ ~\E fk \in foreign_keys :
               fk.schema = target_schema /\ fk.table = target_table /\ fk.name = constraint_name
    THEN Raise("drop_foreign_key", uid, target_schema, uid, "ddl_failed") /\ UNCHANGED objvars
  ELSE
    /\ Len(admin_audit_log) < MaxAudit
    /\ foreign_keys' =
         {fk \in foreign_keys :
            ~(fk.schema = target_schema /\ fk.table = target_table /\ fk.name = constraint_name)}
    /\ admin_audit_log' = Append(admin_audit_log,
         AuditRow(uid, "DROP_FOREIGN_KEY",
                  target_schema \o "." \o target_table \o "." \o constraint_name, NoDetails))
    /\ last' = Call("drop_foreign_key", uid, target_schema, uid, "ok")
    /\ UNCHANGED <<admin_users, tenants, user_schema_access, schemata, usage, now,
                   columns, profiles, tenant_buckets>>

drop_column_check(uid, target_schema) ==
  IF ~has_schema_access(uid, target_schema, "admin") THEN "access_denied" ELSE "ok"

\* ALTER TABLE ... DROP COLUMN (without CASCADE) fails when the column is missing or
\* when a foreign key of another table references it; the foreign keys on the column
\* go with it
drop_column(uid, target_schema, target_table, column_name, ddl_ok) ==
  LET chk == drop_column_check(uid, target_schema) IN
  IF chk # "ok" THEN Raise("drop_column", uid, target_schema, uid, chk) /\ UNCHANGED objvars
  ELSE IF \/ ~ddl_ok
          \/ <<target_schema, target_table, column_name>> \notin columns
          \/ \E fk \in foreign_keys :
               /\ fk.ref_schema = target_schema /\ fk.ref_table = target_table
               /\ fk.ref_column = column_name
               /\ ~(fk.schema = target_schema /\ fk.table = target_table)
    THEN Raise("drop_column", uid, target_schema, uid, "ddl_failed") /\ UNCHANGED objvars
  ELSE
    /\ Len(admin_audit_log) < MaxAudit
    /\ columns' = columns \ {<<target_schema, target_table, column_name>>}
    /\ foreign_keys' =
         {fk \in foreign_keys :
            /\ ~(fk.schema = target_schema /\ fk.table = target_table
                 /\ fk.column = column_name)
            /\ ~(fk.ref_schema = target_schema /\ fk.ref_table = target_table
                 /\ fk.ref_column = column_name)}
    /\ admin_audit_log' = Append(admin_audit_log,
         AuditRow(uid, "DROP_COLUMN",
                  target_schema \o "." \o target_table \o "." \o column_name, NoDetails))
    /\ last' = Call("drop_column", uid, target_schema, uid, "ok")
    /\ UNCHANGED <<admin_users, tenants, user_schema_access, schemata, usage, now,
                   profiles, tenant_buckets>>

public_system_tables == {"admin_users", "tenants", "user_schema_access", "admin_audit_log"}

tenant_default_tables == {"settings", "users", "audit_log"}

\* the tables other than target_table that hold a foreign key on target_table
dependent_tables(target_schema, target_table) ==
  {<<fk.schema, fk.table>> : fk \in
     {k \in foreign_keys :
        /\ k.ref_schema = target_schema /\ k.ref_table = target_table
        /\ ~(k.schema = target_schema /\ k.table = target_table)}}

drop_table_check(uid, target_schema, target_table, force_cascade) ==
  IF ~has_schema_access(uid, target_schema, "admin") THEN "access_denied"
  ELSE IF target_schema = "public" /\ target_table \in public_system_tables THEN "protected"
  ELSE IF target_schema # "public" /\ target_table \in tenant_default_tables
    THEN "default_table"
  ELSE IF Cardinality(dependent_tables(target_schema, target_table)) > 0 /\ ~force_cascade
    THEN "dependent"
  ELSE "ok"

\* DROP TABLE IF EXISTS [CASCADE]: the table goes with its columns and its foreign
\* keys, and with CASCADE the foreign keys of other tables on it go too; a table
\* that does not exist is no error, and the audit row is written all the same
drop_table(uid, target_schema, target_table, force_cascade, ddl_ok) ==
  LET chk == drop_table_check(uid, target_schema, target_table, force_cascade) IN
  IF chk # "ok" THEN Raise("drop_table", uid, target_schema, uid, chk) /\ UNCHANGED objvars
  ELSE IF ~ddl_ok
    THEN Raise("drop_table", uid, target_schema, uid, "ddl_failed") /\ UNCHANGED objvars
  ELSE
    /\ Len(admin_audit_log) < MaxAudit
    /\ schemata' = [schemata EXCEPT ![target_schema] =
                      IF @ = Absent THEN @ ELSE @ \ {target_table}]
    /\ columns' = {c \in columns : ~(c[1] = target_schema /\ c[2] = target_table)}
    /\ foreign_keys' =
         {fk \in foreign_keys :
            /\ ~(fk.schema = target_schema /\ fk.table = target_table)
            /\ ~(fk.ref_schema = target_schema /\ fk.ref_table = target_table)}
    /\ admin_audit_log' = Append(admin_audit_log,
         AuditRow(uid, "DROP_TABLE", target_schema \o "." \o target_table, NoDetails))
    /\ last' = Call("drop_table", uid, target_schema, uid, "ok")
    /\ UNCHANGED <<admin_users, tenants, user_schema_access, usage, now,
                   profiles, tenant_buckets>>

\* ------------------------------------------------------- POST /api/tenants
\* schemaName.startsWith(prefix)
StartsWith(c, prefix) ==
  /\ Len(c) >= Len(prefix)
  /\ \A i \in 1..Len(prefix) : c[i] = prefix[i]

\* the reserved list of the route; schemaName === r is the case of startsWith(r)
\* in which nothing follows
RouteReserved ==
  {<<"p","u","b","l","i","c">>, <<"a","u","t","h">>, <<"s","t","o","r","a","g","e">>,
   <<"g","r","a","p","h","q","l">>, <<"r","e","a","l","t","i","m","e">>,
   <<"s","u","p","a","b","a","s","e">>, <<"p","g","_">>,
   <<"i","n","f","o","r","m","a","t","i","o","n","_","s","c","h","e","m","a">>}

\* a row of tenants that the policy "Tenants: admins can view all" shows to uid
TenantVisible(uid, schema_name) ==
  /\ TenantExists(schema_name)
  /\ \/ is_admin(uid)
     \/ \E usa \in user_schema_access :
          /\ usa.user_id = uid /\ usa.tenant_schema = schema_name
          /\ (usa.expires_at = NULL \/ usa.expires_at > now)

\* the checks of the route before it calls the procedure
POST_check(uid, schemaName) ==
  IF ~MatchesNameFormat(schemaName) THEN "invalid_name"
  ELSE IF Len(NameChars(schemaName)) < 3 \/ Len(NameChars(schemaName)) > 63
    THEN "invalid_length"
  ELSE IF \E r \in RouteReserved : StartsWith(NameChars(schemaName), r) THEN "reserved"
  ELSE IF TenantVisible(uid, schemaName) THEN "conflict"
  ELSE "ok"

\* inputs
LevelInputs == AccessLevels \cup {"owner"}
RoleInputs == AdminRoles
\* no expiry, or an expiry that is in the future at time 0 and has passed at time 1
ExpiryInputs == {NULL, 1}
NewTableNames == {"orders"}

\* A rejected call leaves the database as it was, so the calls that can follow it
\* are the calls that can follow the state it was made in: every call is explored
\* from the states that successful calls reach, and the state a rejected call
\* ends in only records its outcome.
Ready == last.result = "ok"

\* Time passes while the audit log has room for the row of a call that follows:
\* with MaxAudit rows written, only the calls that write no row are left.
Open == Ready /\ Len(admin_audit_log) < MaxAudit

Next ==
  \/ Open /\ Tick /\ UNCHANGED <<sessions, objvars, webvars>>
  \/ \E uid \in AuthUsers, s \in CallNames, ddl_ok \in BOOLEAN :
       Ready /\ create_tenant_schema(uid, s, ddl_ok) /\ UNCHANGED <<sessions, webvars>>
  \/ \E uid \in AuthUsers, s \in TenantNames, ddl_ok \in BOOLEAN :
       Ready /\ suspend_tenant(uid, s, ddl_ok) /\ UNCHANGED <<sessions, objvars, webvars>>
  \/ \E uid \in AuthUsers, s \in TenantNames, ddl_ok \in BOOLEAN :
       Ready /\ activate_tenant(uid, s, ddl_ok) /\ UNCHANGED <<sessions, objvars, webvars>>
  \/ \E uid \in AuthUsers, s \in CallNames, ddl_ok \in BOOLEAN :
       Ready /\ delete_tenant_schema(uid, s, ddl_ok) /\ UNCHANGED <<sessions, webvars>>
  \/ \E uid \in AuthUsers, t \in Principals, s \in TenantNames,
        l \in LevelInputs, e \in ExpiryInputs :
       Ready /\ grant_schema_access(uid, t, s, l, e) /\ UNCHANGED <<sessions, objvars, webvars>>
  \/ \E uid \in AuthUsers, t \in AuthUsers, s \in TenantNames :
       Ready /\ revoke_schema_access(uid, t, s) /\ UNCHANGED <<sessions, objvars, webvars>>
  \/ \E uid \in AuthUsers, t \in AuthUsers, r \in RoleInputs :
       Ready /\ promote_to_admin(uid, t, r) /\ UNCHANGED <<sessions, objvars, webvars>>
  \/ \E uid \in AuthUsers, t \in AuthUsers :
       Ready /\ revoke_admin(uid, t) /\ UNCHANGED <<sessions, objvars, webvars>>
  \/ \E uid \in AuthUsers, tn \in NewTableNames, ddl_ok \in BOOLEAN :
       Ready /\ create_table(uid, "acme", tn, ddl_ok) /\ UNCHANGED <<sessions, webvars>>

Spec == Init /\ [][Next]_vars

\* ------------------------------------------------ calls that run concurrently
\* Each call is one transaction at READ COMMITTED.  Its checks are SELECTs that read
\* what is committed when they run.  Its writes lock what they write (the row of
\* user_schema_access or of tenants, the catalog row of the schema) until the
\* transaction ends, and nothing of them is visible to another session before then,
\* so the first write to the end of the transaction is one step.
InFlight(pc, op, uid, schema, target, level, expires_at, result) ==
  [pc |-> pc, op |-> op, caller |-> uid, schema |-> schema, target |-> target,
   level |-> level, expires_at |-> expires_at, at |-> now, result |-> result]

\* the checks of a call: an exception ends the call, otherwise its writes follow
Checked(s, op, uid, schema, target, level, expires_at, chk) ==
  sessions' = [sessions EXCEPT ![s] =
    InFlight(IF chk = "ok" THEN "checked" ELSE "done", op, uid, schema, target, level,
             expires_at, IF chk = "ok" THEN "pending" ELSE chk)]

Finished(s, result) ==
  sessions' = [sessions EXCEPT ![s].pc = "done", ![s].result = result]

grant_schema_access_begin(s, uid, target_user_id, target_schema, access_level, expires_at) ==
  /\ sessions[s].pc = "idle"
  /\ Checked(s, "grant", uid, target_schema, target_user_id, access_level, expires_at,
             grant_schema_access_check(uid, target_user_id, target_schema, access_level))
  /\ UNCHANGED <<dbvars, now, last>>

\* a user_schema_access without its two REFERENCES clauses
ForeignKeysHold_None(user_id, tenant_schema) ==
  TRUE

\* user_id REFERENCES auth.users(id), tenant_schema REFERENCES public.tenants(schema_name):
\* the rows that an INSERT or UPDATE of user_schema_access needs to be committed
ForeignKeysHold(user_id, tenant_schema) ==
  user_id \in AuthUsers /\ TenantExists(tenant_schema)

\* INSERT ... ON CONFLICT DO UPDATE, the audit INSERT and the end of the transaction;
\* the INSERT fails on a foreign key when the tenant was deleted after the checks
grant_schema_access_commit(s) ==
  LET c == sessions[s] IN
  /\ c.pc = "checked" /\ c.op = "grant"
  /\ IF ~ForeignKeysHold(c.target, c.schema)
       THEN Finished(s, "fk_violation") /\ UNCHANGED <<dbvars, now, last>>
       ELSE /\ user_schema_access' =
                 UpsertAccessAt(c.caller, c.target, c.schema, c.level, c.expires_at, c.at)
            /\ admin_audit_log' = Append(admin_audit_log,
                 AuditRow(c.caller, "GRANT_ACCESS", "access_id",
                          Details(c.target, c.schema, c.level, "null")))
            /\ Finished(s, "ok")
            /\ UNCHANGED <<admin_users, tenants, schemata, usage, now, last>>

suspend_tenant_begin(s, uid, schema_name) ==
  /\ sessions[s].pc = "idle"
  /\ Checked(s, "suspend", uid, schema_name, uid, "null", NULL,
             suspend_tenant_check(uid, schema_name))
  /\ UNCHANGED <<dbvars, now, last>>

\* REVOKE ..., UPDATE tenants, the audit INSERT and the end of the transaction
suspend_tenant_commit(s, ddl_ok) ==
  LET c == sessions[s] IN
  /\ c.pc = "checked" /\ c.op = "suspend"
  /\ IF ~ddl_ok \/ schemata[c.schema] = Absent
       THEN Finished(s, "ddl_failed") /\ UNCHANGED <<dbvars, now, last>>
       ELSE /\ usage' = usage \ {c.schema}
            /\ tenants' = SetStatus(c.schema, "suspended")
            /\ admin_audit_log' = Append(admin_audit_log,
                 AuditRow(c.caller, "SUSPEND", c.schema, NoDetails))
            /\ Finished(s, "ok")
            /\ UNCHANGED <<admin_users, user_schema_access, schemata, now, last>>

activate_tenant_begin(s, uid, schema_name) ==
  /\ sessions[s].pc = "idle"
  /\ Checked(s, "activate", uid, schema_name, uid, "null", NULL,
             activate_tenant_check(uid, schema_name))
  /\ UNCHANGED <<dbvars, now, last>>

\* GRANT ..., UPDATE tenants, the audit INSERT and the end of the transaction
activate_tenant_commit(s, ddl_ok) ==
  LET c == sessions[s] IN
  /\ c.pc = "checked" /\ c.op = "activate"
  /\ IF ~ddl_ok \/ schemata[c.schema] = Absent
       THEN Finished(s, "ddl_failed") /\ UNCHANGED <<dbvars, now, last>>
       ELSE /\ usage' = usage \cup {c.schema}
            /\ tenants' = SetStatus(c.schema, "active")
            /\ admin_audit_log' = Append(admin_audit_log,
                 AuditRow(c.caller, "ACTIVATE", c.schema, NoDetails))
            /\ Finished(s, "ok")
            /\ UNCHANGED <<admin_users, user_schema_access, schemata, now, last>>

\* inputs of the concurrent calls
ConcLevels == {"read", "admin"}

\* The state the concurrent calls start in, reached by u1 calling
\* create_tenant_schema('acme'), promote_to_admin(u2, 'admin') and
\* grant_schema_access(u2, 'acme', 'write'): u2 holds a grant on acme, u1 holds none.
InitConc ==
  /\ admin_users = {[id |-> "u1", role |-> "super_admin", is_active |-> TRUE],
                    [id |-> "u2", role |-> "admin", is_active |-> TRUE]}
  /\ tenants = {[schema_name |-> "acme", status |-> "active", created_by |-> "u1"]}
  /\ user_schema_access =
       {[user_id |-> "u2", tenant_schema |-> "acme", access_level |-> "write",
         granted_by |-> "u1", granted_at |-> 0, expires_at |-> NULL]}
  /\ admin_audit_log =
       << AuditRow("u1", "CREATE", "acme", NoDetails),
          AuditRow("u1", "PROMOTE_ADMIN", "u2", Details("null", "null", "null", "admin")),
          AuditRow("u1", "GRANT_ACCESS", "access_id", Details("u2", "acme", "write", "null")) >>
  /\ schemata = [n \in AllNames |->
                   CASE n = "public" -> {"tenants"}
                     [] n = "auth" -> {"users"}
                     [] n = "beta" -> {}
                     [] n = "acme" -> DefaultTables
                     [] OTHER -> Absent]
  /\ usage = {"public", "acme"}
  /\ now = 0
  /\ last = Call("grant", "u1", "acme", "u2", "ok")
  /\ sessions = [s \in Sessions |-> Idle]
  /\ columns = SystemColumns \cup DefaultColumns("acme")
  /\ foreign_keys = DefaultForeignKeys("acme")
  /\ profiles = {}
  /\ tenant_buckets = {}
  /\ storage = {}
  /\ response = NoResponse

\* every session makes one call
NextConc ==
  \/ Tick /\ UNCHANGED <<sessions, objvars, webvars>>
  \/ \E s \in Sessions, uid \in AuthUsers, t \in AuthUsers, n \in TenantNames,
        l \in ConcLevels, e \in ExpiryInputs :
       grant_schema_access_begin(s, uid, t, n, l, e) /\ UNCHANGED <<objvars, webvars>>
  \/ \E s \in Sessions : grant_schema_access_commit(s) /\ UNCHANGED <<objvars, webvars>>
  \/ \E s \in Sessions, uid \in AuthUsers, n \in TenantNames :
       suspend_tenant_begin(s, uid, n) /\ UNCHANGED <<objvars, webvars>>
  \/ \E s \in Sessions, ddl_ok \in BOOLEAN :
       suspend_tenant_commit(s, ddl_ok) /\ UNCHANGED <<objvars, webvars>>
  \/ \E s \in Sessions, uid \in AuthUsers, n \in TenantNames :
       activate_tenant_begin(s, uid, n) /\ UNCHANGED <<objvars, webvars>>
  \/ \E s \in Sessions, ddl_ok \in BOOLEAN :
       activate_tenant_commit(s, ddl_ok) /\ UNCHANGED <<objvars, webvars>>

SpecConc == InitConc /\ [][NextConc]_vars

\* ------------------------------------------------ DDL inside a tenant schema
\* the tenant acme as create_tenant_schema leaves it, and then either u2 with one
\* grant on it, or the table orders that u1 has created in it
InitDdl ==
  /\ admin_users = {[id |-> "u1", role |-> "super_admin", is_active |-> TRUE]}
  /\ tenants = {[schema_name |-> "acme", status |-> "active", created_by |-> "u1"]}
  /\ \/ \E l \in AccessLevels, e \in ExpiryInputs :
          /\ user_schema_access =
               {[user_id |-> "u2", tenant_schema |-> "acme", access_level |-> l,
                 granted_by |-> "u1", granted_at |-> 0, expires_at |-> e]}
          /\ admin_audit_log =
               << AuditRow("u1", "CREATE", "acme", NoDetails),
                  AuditRow("u1", "GRANT_ACCESS", "access_id",
                           Details("u2", "acme", l, "null")) >>
          /\ schemata = [n \in AllNames |->
                           CASE n = "public" -> {"tenants"}
                             [] n = "auth" -> {"users"}
                             [] n = "beta" -> {}
                             [] n = "acme" -> DefaultTables
                             [] OTHER -> Absent]
          /\ columns = SystemColumns \cup DefaultColumns("acme")
          /\ last = Call("grant", "u1", "acme", "u2", "ok")
     \/ /\ user_schema_access = {}
        /\ admin_audit_log =
             << AuditRow("u1", "CREATE", "acme", NoDetails),
                AuditRow("u1", "CREATE_TABLE", "acme.orders", NoDetails) >>
        /\ schemata = [n \in AllNames |->
                         CASE n = "public" -> {"tenants"}
                           [] n = "auth" -> {"users"}
                           [] n = "beta" -> {}
                           [] n = "acme" -> DefaultTables \cup {"orders"}
                           [] OTHER -> Absent]
        /\ columns = SystemColumns \cup DefaultColumns("acme")
                       \cup {<<"acme", "orders", c>> : c \in NewTableColumns}
        /\ last = Call("create_table", "u1", "acme", "u1", "ok")
  /\ usage = {"public", "acme"}
  /\ now = 0
  /\ sessions = [s \in Sessions |-> Idle]
  /\ foreign_keys = DefaultForeignKeys("acme")
  /\ profiles = {}
  /\ tenant_buckets = {}
  /\ storage = {}
  /\ response = NoResponse

DdlTables == {"settings", "users", "orders"}
\* a valid referential action and a word that is none
OnDeleteInputs == {"CASCADE", "DROP"}
OnUpdateInputs == {"NO ACTION", "DROP"}
\* the referenced columns: auth.users(id), acme.users(id) and acme.orders(id)
RefInputs == {<<"auth", "users", "id">>, <<"acme", "users", "id">>, <<"acme", "orders", "id">>}
\* a table name that matches the name pattern and one that does not
TableNameInputs == NewTableNames \cup {"Orders"}
ConstraintInputs == {"users_auth_user_id_fkey", "settings_id_fkey"}

NextDdl ==
  \/ Ready /\ Tick /\ UNCHANGED <<sessions, objvars, webvars>>
  \/ \E uid \in AuthUsers, tn \in TableNameInputs, ddl_ok \in BOOLEAN :
       Ready /\ create_table(uid, "acme", tn, ddl_ok) /\ UNCHANGED <<sessions, webvars>>
  \/ \E uid \in AuthUsers, t \in DdlTables, force_cascade \in BOOLEAN, ddl_ok \in BOOLEAN :
       Ready /\ drop_table(uid, "acme", t, force_cascade, ddl_ok)
             /\ UNCHANGED <<sessions, webvars>>
  \/ \E uid \in AuthUsers, t \in DdlTables, c \in ColumnInputs, ddl_ok \in BOOLEAN :
       Ready /\ add_column(uid, "acme", t, c, ddl_ok) /\ UNCHANGED <<sessions, webvars>>
  \/ \E uid \in AuthUsers, t \in DdlTables, c \in ColumnInputs, r \in RefInputs,
        d \in OnDeleteInputs, u \in OnUpdateInputs, ddl_ok \in BOOLEAN :
       Ready /\ add_foreign_key(uid, "acme", t, c, r[1], r[2], r[3], d, u, ddl_ok)
             /\ UNCHANGED <<sessions, webvars>>
  \/ \E uid \in AuthUsers, t \in DdlTables, cn \in ConstraintInputs, ddl_ok \in BOOLEAN :
       Ready /\ drop_foreign_key(uid, "acme", t, cn, ddl_ok) /\ UNCHANGED <<sessions, webvars>>
  \/ \E uid \in AuthUsers, t \in DdlTables, c \in ColumnInputs, ddl_ok \in BOOLEAN :
       Ready /\ drop_column(uid, "acme", t, c, ddl_ok) /\ UNCHANGED <<sessions, webvars>>

SpecDdl == InitDdl /\ [][NextDdl]_vars

\* ------------------------------------------------------- tenant user profiles
\* auth.users.email; a UUID without a row in auth.users has none
Email(uid) ==
  CASE uid = "u1" -> "u1@x"
    [] uid = "u2" -> "u2@x"
    [] OTHER -> "null"

EmailInputs == {"u1@x", "u2@x"}
UserNameInputs == {"null", "Ann"}
ProfileSchemas == {"acme", "beta"}

\* a statement on %I.users needs the table and the columns it names
UsersTableHas(target_schema, cols) ==
  /\ TableExists(target_schema, "users")
  /\ \A c \in cols : <<target_schema, "users", c>> \in columns

\* SELECT id FROM %I.users WHERE auth_user_id = $1
ProfilesOf(target_schema, auth_id) ==
  {pr \in profiles : pr.schema = target_schema /\ pr.auth_user_id = auth_id}

\* id UUID PRIMARY KEY DEFAULT gen_random_uuid(): an id no row of the table has
NewProfileId(target_schema) ==
  1 + Cardinality({pr \in profiles : pr.schema = target_schema})

\* INSERT INTO %I.users (auth_user_id, email, name, role, metadata) ... RETURNING id
\* needs its columns; the constraints of %I.users it can violate: email NOT NULL,
\* email UNIQUE, auth_user_id REFERENCES auth.users(id)
InsertProfileAllowed(target_schema, auth_id, email) ==
  /\ UsersTableHas(target_schema,
                   {"auth_user_id", "email", "name", "role", "metadata", "id"})
  /\ email # "null"
  /\ ~\E pr \in profiles : pr.schema = target_schema /\ pr.email = email
  /\ auth_id \in AuthUsers

ProfileRow(target_schema, id, auth_id, email, name, role) ==
  [schema |-> target_schema, id |-> id, auth_user_id |-> auth_id, email |-> email,
   name |-> name, role |-> role]

\* the SELECT of the profile names id and auth_user_id only
create_user_profile_check(uid, target_schema) ==
  IF ~has_schema_access(uid, target_schema, "write") THEN "access_denied"
  ELSE IF ~UsersTableHas(target_schema, {"id", "auth_user_id"}) THEN "sql_error"
  ELSE IF ProfilesOf(target_schema, uid) # {} THEN "already"
  ELSE "ok"

create_user_profile(uid, target_schema, user_email, user_name, user_role) ==
  LET chk == create_user_profile_check(uid, target_schema) IN
  IF chk # "ok" THEN Raise("create_user_profile", uid, target_schema, uid, chk)
                     /\ UNCHANGED <<objvars, response>>
  ELSE IF ~InsertProfileAllowed(target_schema, uid, user_email)
    THEN Raise("create_user_profile", uid, target_schema, uid, "sql_error")
         /\ UNCHANGED <<objvars, response>>
  ELSE
    LET row == ProfileRow(target_schema, NewProfileId(target_schema), uid, user_email,
                          user_name, user_role)
    IN
    /\ profiles' = profiles \cup {row}
    /\ response' = [status |-> 200, profile |-> row, is_new |-> TRUE]
    /\ last' = Call("create_user_profile", uid, target_schema, uid, "ok")
    /\ UNCHANGED <<dbvars, now, columns, foreign_keys, tenant_buckets>>

\* ensure_user_profile has no check of has_schema_access: its first statement after
\* auth.uid() reads auth.users, its second reads %I.users; its last reads the full
\* profile, and an error there undoes the INSERT
ensure_user_profile_check(uid, target_schema) ==
  IF ~UsersTableHas(target_schema, {"id", "auth_user_id"}) THEN "sql_error"
  ELSE IF ProfilesOf(target_schema, uid) = {}
          /\ ~InsertProfileAllowed(target_schema, uid, Email(uid)) THEN "sql_error"
  ELSE IF ~UsersTableHas(target_schema,
            {"id", "auth_user_id", "email", "name", "role", "metadata", "created_at"})
    THEN "sql_error"
  ELSE "ok"

ensure_user_profile(uid, target_schema, user_name) ==
  LET chk == ensure_user_profile_check(uid, target_schema)
      v_email == Email(uid)
      found == ProfilesOf(target_schema, uid)
  IN
  IF chk # "ok" THEN Raise("ensure_user_profile", uid, target_schema, uid, chk)
                     /\ UNCHANGED <<objvars, response>>
  ELSE IF found # {} THEN
    /\ response' = [status |-> 200, profile |-> CHOOSE pr \in found : TRUE, is_new |-> FALSE]
    /\ last' = Call("ensure_user_profile", uid, target_schema, uid, "ok")
    /\ UNCHANGED <<dbvars, now, objvars>>
  ELSE
    LET row == ProfileRow(target_schema, NewProfileId(target_schema), uid, v_email,
                          user_name, "user")
    IN
    /\ profiles' = profiles \cup {row}
    /\ response' = [status |-> 200, profile |-> row, is_new |-> TRUE]
    /\ last' = Call("ensure_user_profile", uid, target_schema, uid, "ok")
    /\ UNCHANGED <<dbvars, now, columns, foreign_keys, tenant_buckets>>

\* the tenant acme as create_tenant_schema leaves it; u1 is the super admin and u2
\* holds no grant on acme or one grant
InitProfile ==
  /\ admin_users = {[id |-> "u1", role |-> "super_admin", is_active |-> TRUE]}
  /\ tenants = {[schema_name |-> "acme", status |-> "active", created_by |-> "u1"]}
  /\ \E l \in AccessLevels \cup {"none"} :
       /\ user_schema_access =
            IF l = "none" THEN {}
            ELSE {[user_id |-> "u2", tenant_schema |-> "acme", access_level |-> l,
                   granted_by |-> "u1", granted_at |-> 0, expires_at |-> 1]}
       /\ admin_audit_log =
            IF l = "none" THEN << AuditRow("u1", "CREATE", "acme", NoDetails) >>
            ELSE << AuditRow("u1", "CREATE", "acme", NoDetails),
                    AuditRow("u1", "GRANT_ACCESS", "access_id",
                             Details("u2", "acme", l, "null")) >>
  /\ schemata = [n \in AllNames |->
                   CASE n = "public" -> {"tenants"}
                     [] n = "auth" -> {"users"}
                     [] n = "beta" -> {}
                     [] n = "acme" -> DefaultTables
                     [] OTHER -> Absent]
  /\ usage = {"public", "acme"}
  /\ now = 0
  /\ last = Call("create", "u1", "acme", "u1", "ok")
  /\ sessions = [s \in Sessions |-> Idle]
  /\ columns = SystemColumns \cup DefaultColumns("acme")
  /\ foreign_keys = DefaultForeignKeys("acme")
  /\ profiles = {}
  /\ tenant_buckets = {}
  /\ storage = {}
  /\ response = NoResponse

NextProfile ==
  \/ Ready /\ Tick /\ UNCHANGED <<sessions, objvars, webvars>>
  \/ \E uid \in Principals, s \in ProfileSchemas, e \in EmailInputs, n \in UserNameInputs :
       Ready /\ create_user_profile(uid, s, e, n, "user") /\ UNCHANGED <<sessions, storage>>
  \/ \E uid \in Principals, s \in ProfileSchemas, n \in UserNameInputs :
       Ready /\ ensure_user_profile(uid, s, n) /\ UNCHANGED <<sessions, storage>>
  \/ \E uid \in AuthUsers, c \in {"created_at", "name"}, ddl_ok \in BOOLEAN :
       Ready /\ drop_column(uid, "acme", "users", c, ddl_ok)
             /\ UNCHANGED <<sessions, webvars>>

SpecProfile == InitProfile /\ [][NextProfile]_vars

\* ------------------------------------------------------------ route handlers
\* A route handler is a sequence of awaits, and what runs up to an await that
\* reads or writes the database or the storage is one step.  A session holds the
\* request between its steps: target holds the bucket id of the bucket routes,
\* level holds the variant of the handler or the action of a PATCH.
Request(s, pc, op, uid, schema, target, level, result) ==
  sessions' = [sessions EXCEPT ![s] = InFlight(pc, op, uid, schema, target, level, NULL, result)]

Proceed(s, pc, result) ==
  sessions' = [sessions EXCEPT ![s].pc = pc, ![s].result = result]

\* the handler has answered: the session is free for the next request
Answer(s) ==
  sessions' = [sessions EXCEPT ![s] = Idle]

Response(status, error, failed, deletedBuckets) ==
  [status |-> status, error |-> error, failed |-> failed, deletedBuckets |-> deletedBuckets]

\* createBucketIfMissing: getBucket, and createBucket when there is none; an
\* "already exists" of createBucket is no error
createBucketIfMissing(bucketId) ==
  storage \cup {bucketId}

\* bucketExists: Boolean(data) && !error
bucketExists(bucketId, storage_ok) ==
  bucketId \in storage /\ storage_ok

\* an INSERT of (tenant_schema, bucket_id) into tenant_buckets: the policy
\* tenant_buckets_insert for a user client, UNIQUE (bucket_id) and
\* UNIQUE (tenant_schema, bucket_id), and the foreign key on tenants
InsertBucketLink(uid, service_role, tenant_schema, bucket_id) ==
  IF ~service_role /\ ~is_admin(uid) THEN "rls_violation"
  ELSE IF \E r \in tenant_buckets : r.bucket_id = bucket_id THEN "unique_violation"
  ELSE IF ~TenantExists(tenant_schema) THEN "fk_violation"
  ELSE "ok"

\* ---------------------------------------------------- POST /api/tenants
\* the validation of the name and the SELECT on tenants
POST_select(s, uid, schemaName, variant) ==
  LET chk == POST_check(uid, schemaName) IN
  /\ sessions[s].pc = "idle"
  /\ IF chk # "ok" THEN
       /\ Raise("POST", uid, schemaName, uid, chk)
       /\ UNCHANGED sessions
       /\ response' = Response(IF chk = "conflict" THEN 409 ELSE 400, chk, {}, 0)
     ELSE
       /\ last' = Call("POST_select", uid, schemaName, uid, "ok")
       /\ Request(s, "selected", "POST", uid, schemaName, schemaName, variant, "pending")
       /\ UNCHANGED <<dbvars, now, response>>
  /\ UNCHANGED <<objvars, storage>>

\* supabase.rpc('create_tenant_schema'): 500 with the message of the error, else
\* 201, or the bucket of the schema in the handler that links one
POST_rpc(s, ddl_ok) ==
  LET c == sessions[s] IN
  /\ c.pc = "selected" /\ c.op = "POST"
  /\ create_tenant_schema(c.caller, c.schema, ddl_ok)
  /\ IF last'.result # "ok" THEN
       /\ Answer(s)
       /\ response' = Response(500, last'.result, {}, 0)
     ELSE IF c.level = "bucket" THEN
       /\ Proceed(s, "created", "pending")
       /\ UNCHANGED response
     ELSE
       /\ Answer(s)
       /\ response' = Response(201, "none", {}, 0)
  /\ UNCHANGED storage

\* createBucketIfMissing of POST /api/tenants (after the rpc) and of POST
\* .../buckets (after is_admin), first await: createAdminClient, which throws without
\* the service role key, and storage.getBucket; a bucket that is found ends the
\* function, any other answer goes on to createBucket.  What is thrown is caught by
\* the handler: 500
createBucketIfMissing_getBucket(s, key, storage_ok) ==
  LET c == sessions[s]
      thrown == IF c.op = "POST" THEN "bucket_setup_failed" ELSE "unexpected"
  IN
  /\ \/ c.op = "POST" /\ c.pc = "created"
     \/ c.op = "POST_buckets" /\ c.pc = "admin"
  /\ IF ~key THEN
       /\ last' = Call("createBucketIfMissing", c.caller, c.schema, c.caller, thrown)
       /\ Answer(s)
       /\ response' = Response(500, thrown, {}, 0)
     ELSE
       /\ last' = Call("getBucket", c.caller, c.schema, c.caller, "ok")
       /\ Proceed(s, IF bucketExists(c.target, storage_ok) THEN "bucket" ELSE "missing",
                  "pending")
       /\ UNCHANGED response
  /\ UNCHANGED <<dbvars, now, objvars, storage>>

\* second await: storage.createBucket; an error that is no "already exists" is thrown
createBucketIfMissing_createBucket(s, storage_ok) ==
  LET c == sessions[s]
      thrown == IF c.op = "POST" THEN "bucket_setup_failed" ELSE "unexpected"
  IN
  /\ c.op \in {"POST", "POST_buckets"} /\ c.pc = "missing"
  /\ IF ~storage_ok THEN
       /\ last' = Call("createBucketIfMissing", c.caller, c.schema, c.caller, thrown)
       /\ Answer(s)
       /\ response' = Response(500, thrown, {}, 0)
       /\ UNCHANGED storage
     ELSE
       /\ last' = Call("createBucket", c.caller, c.schema, c.caller, "ok")
       /\ Proceed(s, "bucket", "pending")
       /\ storage' = createBucketIfMissing(c.target)
       /\ UNCHANGED response
  /\ UNCHANGED <<dbvars, now, objvars>>

\* supabaseAdmin.from('tenant_buckets').upsert(..., onConflict tenant_schema,bucket_id)
POST_upsert(s) ==
  LET c == sessions[s]
      row == [tenant_schema |-> c.schema, bucket_id |-> c.schema]
      res == IF row \in tenant_buckets THEN "ok"
             ELSE InsertBucketLink(c.caller, TRUE, c.schema, c.schema)
  IN
  /\ c.pc = "bucket" /\ c.op = "POST"
  /\ last' = Call("POST_upsert", c.caller, c.schema, c.caller,
                  IF res = "ok" THEN "ok" ELSE "link_failed")
  /\ Answer(s)
  /\ response' = IF res = "ok" THEN Response(201, "none", {}, 0)
                 ELSE Response(500, "link_failed", {}, 0)
  /\ tenant_buckets' = IF res = "ok" THEN tenant_buckets \cup {row} ELSE tenant_buckets
  /\ UNCHANGED <<dbvars, now, columns, foreign_keys, profiles, storage>>

\* ------------------------------------------- DELETE /api/tenants/[schema]
\* const { data: bucketRows, error: bucketErr } = supabase.from('tenant_buckets')
\*   .select('bucket_id').eq('tenant_schema', schema)
\* The query is not awaited: what is destructured is the query builder, and a
\* query builder has no property data and no property error.
bucketRows(schema) == "undefined"

bucketErr(schema) == "undefined"

\* (bucketRows || []).map((r) => r.bucket_id).filter(Boolean)
bucketIds(schema) ==
  IF bucketRows(schema) = "undefined" THEN {}
  ELSE {r.bucket_id : r \in bucketRows(schema)}

\* what the three storage calls on one bucket can end in
BucketOutcomes == {"deleted", "empty_error", "delete_error", "still_there"}

\* the checks of the route before it calls the procedure
DELETE_check(uid, schema, key) ==
  IF ~TenantVisible(uid, schema) THEN "not_found"
  ELSE IF bucketErr(schema) # "undefined" THEN "bucket_fetch_failed"
  ELSE IF bucketIds(schema) # {} /\ ~key THEN "missing_key"
  ELSE "ok"

\* the SELECT on tenants, and in the handler that removes buckets the query on
\* tenant_buckets and the test of the service role key
DELETE_select(s, uid, schema, key, variant) ==
  LET chk == IF variant = "bucket" THEN DELETE_check(uid, schema, key)
             ELSE IF ~TenantVisible(uid, schema) THEN "not_found" ELSE "ok"
  IN
  /\ sessions[s].pc = "idle"
  /\ IF chk # "ok" THEN
       /\ Raise("DELETE", uid, schema, uid, chk)
       /\ UNCHANGED sessions
       /\ response' = Response(IF chk = "not_found" THEN 404 ELSE 500, chk, {}, 0)
     ELSE
       /\ last' = Call("DELETE_select", uid, schema, uid, "ok")
       /\ Request(s, "selected", "DELETE", uid, schema, schema, variant, "pending")
       /\ UNCHANGED <<dbvars, now, response>>
  /\ UNCHANGED <<objvars, storage>>

\* supabase.rpc('delete_tenant_schema'): 500 with the message of the error; else
\* the loop over bucketIds and the answer.  outcome: what the storage calls end in
DELETE_rpc(s, ddl_ok, outcome) ==
  LET c == sessions[s]
      ids == IF c.level = "bucket" THEN bucketIds(c.schema) ELSE {}
      failed == {b \in ids : outcome[b] # "deleted"}
  IN
  /\ c.pc = "selected" /\ c.op = "DELETE"
  /\ delete_tenant_schema(c.caller, c.schema, ddl_ok)
  /\ IF last'.result # "ok" THEN
       /\ Answer(s)
       /\ response' = Response(500, last'.result, {}, 0)
       /\ UNCHANGED storage
     ELSE
       /\ storage' = storage \ {b \in ids : outcome[b] = "deleted"}
       /\ Answer(s)
       /\ response' =
            IF failed # {} THEN Response(500, "bucket_delete_failed", failed, 0)
            ELSE Response(200, "none", {}, Cardinality(ids))

\* ------------------------------------------- PATCH /api/tenants/[schema]
PatchActions == {"suspend", "activate"}

\* the test of the action, the SELECT of id and status, and the test of the status
PATCH_check(uid, schema, action) ==
  IF action \notin PatchActions THEN "invalid_action"
  ELSE IF ~TenantVisible(uid, schema) THEN "not_found"
  ELSE IF TenantHasStatus(schema, IF action = "suspend" THEN "suspended" ELSE "active")
    THEN "already"
  ELSE "ok"

PATCH_select(s, uid, schema, action) ==
  LET chk == PATCH_check(uid, schema, action) IN
  /\ sessions[s].pc = "idle"
  /\ IF chk # "ok" THEN
       /\ Raise("PATCH", uid, schema, uid, chk)
       /\ UNCHANGED sessions
       /\ response' = Response(IF chk = "not_found" THEN 404 ELSE 400, chk, {}, 0)
     ELSE
       /\ last' = Call("PATCH_select", uid, schema, uid, "ok")
       /\ Request(s, "selected", "PATCH", uid, schema, schema, action, "pending")
       /\ UNCHANGED <<dbvars, now, response>>
  /\ UNCHANGED <<objvars, storage>>

\* supabase.rpc('suspend_tenant') or supabase.rpc('activate_tenant')
PATCH_rpc(s, ddl_ok) ==
  LET c == sessions[s] IN
  /\ c.pc = "selected" /\ c.op = "PATCH"
  /\ IF c.level = "suspend" THEN suspend_tenant(c.caller, c.schema, ddl_ok)
     ELSE activate_tenant(c.caller, c.schema, ddl_ok)
  /\ Answer(s)
  /\ response' = IF last'.result = "ok" THEN Response(200, "none", {}, 0)
                 ELSE Response(500, last'.result, {}, 0)
  /\ UNCHANGED <<objvars, storage>>

\* ------------------------------ POST /api/tenants/[schema]/buckets and .../link
\* the bucket ids the routes are called with, and their characters
BucketChars(b) ==
  CASE b = "bk1" -> <<"b","k","1">>
    [] b = "b1" -> <<"b","1">>
    [] OTHER -> NameChars(b)

\* /^[a-z][a-z0-9_]{2,62}$/
isValidSchemaName(schema) ==
  /\ MatchesNameFormat(schema)
  /\ Len(NameChars(schema)) >= 3 /\ Len(NameChars(schema)) <= 63

\* /^[a-z0-9][a-z0-9_-]{1,61}[a-z0-9]$/
isValidBucketId(bucketId) ==
  LET c == BucketChars(bucketId) IN
    /\ Len(c) >= 3 /\ Len(c) <= 63
    /\ c[1] \in (Lower \cup Digits)
    /\ c[Len(c)] \in (Lower \cup Digits)
    /\ \A i \in 2..(Len(c) - 1) : c[i] \in (Lower \cup Digits \cup {"_", "-"})

\* the tests of the two parameters and supabase.rpc('is_admin'); rpc_ok: the rpc
\* answers without an error
POST_buckets_check(uid, schema, bucketId, rpc_ok) ==
  IF ~isValidSchemaName(schema) THEN "invalid_schema"
  ELSE IF ~isValidBucketId(bucketId) THEN "invalid_bucket"
  ELSE IF ~rpc_ok THEN "admin_error"
  ELSE IF ~is_admin(uid) THEN "forbidden"
  ELSE "ok"

\* op: "POST_buckets" for .../buckets, "POST_link" for .../buckets/link
POST_buckets_is_admin(s, op, uid, schema, bucketId, rpc_ok) ==
  LET chk == POST_buckets_check(uid, schema, bucketId, rpc_ok) IN
  /\ sessions[s].pc = "idle"
  /\ IF chk # "ok" THEN
       /\ Raise(op, uid, schema, uid, chk)
       /\ UNCHANGED sessions
       /\ response' = Response(CASE chk = "forbidden" -> 403
                                  [] chk = "admin_error" -> 500
                                  [] OTHER -> 400, chk, {}, 0)
     ELSE
       /\ last' = Call("is_admin", uid, schema, uid, "ok")
       /\ Request(s, "admin", op, uid, schema, bucketId, "null", "pending")
       /\ UNCHANGED <<dbvars, now, response>>
  /\ UNCHANGED <<objvars, storage>>

\* .../buckets/link: bucketExists(bucketId), 404 when it answers false
POST_link_bucketExists(s, key, storage_ok) ==
  LET c == sessions[s]
      res == IF ~key THEN "unexpected"
             ELSE IF ~bucketExists(c.target, storage_ok) THEN "no_bucket"
             ELSE "ok"
  IN
  /\ c.pc = "admin" /\ c.op = "POST_link"
  /\ IF res # "ok" THEN
       /\ last' = Call("POST_link", c.caller, c.schema, c.caller, res)
       /\ Answer(s)
       /\ response' = Response(IF res = "no_bucket" THEN 404 ELSE 500, res, {}, 0)
     ELSE
       /\ last' = Call("bucketExists", c.caller, c.schema, c.caller, "ok")
       /\ Proceed(s, "bucket", "pending")
       /\ UNCHANGED response
  /\ UNCHANGED <<dbvars, now, objvars, storage>>

\* supabase.from('tenant_buckets').insert(...) of both routes: 409 on a unique
\* violation, 500 on another error, else 201
POST_buckets_insert(s) ==
  LET c == sessions[s]
      res == InsertBucketLink(c.caller, FALSE, c.schema, c.target)
  IN
  /\ c.pc = "bucket" /\ c.op \in {"POST_buckets", "POST_link"}
  /\ last' = Call(c.op, c.caller, c.schema, c.caller, res)
  /\ Answer(s)
  /\ response' = IF res = "ok" THEN Response(201, "none", {}, 0)
                 ELSE Response(IF res = "unique_violation" THEN 409 ELSE 500, res, {}, 0)
  /\ tenant_buckets' =
       IF res = "ok" THEN tenant_buckets \cup {[tenant_schema |-> c.schema, bucket_id |-> c.target]}
       ELSE tenant_buckets
  /\ UNCHANGED <<dbvars, now, columns, foreign_keys, profiles, storage>>

\* ----------------------------------------------- tenant creation by any name
NextNames ==
  \/ \E uid \in AuthUsers, n \in NameInputs :
       Ready /\ POST_select("s1", uid, n, "plain")
  \/ \E s \in Sessions, ddl_ok \in BOOLEAN : POST_rpc(s, ddl_ok)
  \/ \E uid \in AuthUsers, n \in NameInputs, ddl_ok \in BOOLEAN :
       Ready /\ create_tenant_schema(uid, n, ddl_ok) /\ UNCHANGED <<sessions, webvars>>
  \/ \E uid \in AuthUsers, n \in TenantNames, ddl_ok \in BOOLEAN :
       Ready /\ suspend_tenant(uid, n, ddl_ok) /\ UNCHANGED <<sessions, objvars, webvars>>
  \/ \E uid \in AuthUsers, t \in AuthUsers, r \in RoleInputs :
       Ready /\ promote_to_admin(uid, t, r) /\ UNCHANGED <<sessions, objvars, webvars>>

SpecNames == Init /\ [][NextNames]_vars

\* ------------------------------------------------- the routes of one tenant
\* the tenant acme as create_tenant_schema leaves it, with the bucket bk1 of the
\* storage linked to it or not; no other schema has been created
InitRoute ==
  /\ admin_users = {[id |-> "u1", role |-> "super_admin", is_active |-> TRUE]}
  /\ tenants = {[schema_name |-> "acme", status |-> "active", created_by |-> "u1"]}
  /\ user_schema_access = {}
  /\ admin_audit_log = << AuditRow("u1", "CREATE", "acme", NoDetails) >>
  /\ schemata = [n \in AllNames |->
                   CASE n = "public" -> {"tenants"}
                     [] n = "auth" -> {"users"}
                     [] n = "acme" -> DefaultTables
                     [] OTHER -> Absent]
  /\ usage = {"public", "acme"}
  /\ now = 0
  /\ last = Call("create", "u1", "acme", "u1", "ok")
  /\ sessions = [s \in Sessions |-> Idle]
  /\ columns = SystemColumns \cup DefaultColumns("acme")
  /\ foreign_keys = DefaultForeignKeys("acme")
  /\ profiles = {}
  /\ \E linked \in SUBSET {"bk1"} :
       tenant_buckets = {[tenant_schema |-> "acme", bucket_id |-> b] : b \in linked}
  /\ storage = {"bk1"}
  /\ response = NoResponse

\* a schema name that is no valid one, a bucket id that is too short, an action
\* that is none
RouteSchemas == {"acme", "ab"}
\* the names POST /api/tenants is sent with: the tenant, and a name that is new
PostNames == {"acme", "beta"}
BucketIdInputs == BucketIds \cup {"b1"}
PatchInputs == PatchActions \cup {"drop"}

NextRoute ==
  \/ \E s \in Sessions, uid \in AuthUsers, n \in CallNames, key \in BOOLEAN,
        variant \in {"bucket", "plain"} :
       Ready /\ DELETE_select(s, uid, n, key, variant)
  \/ \E s \in Sessions, ddl_ok \in BOOLEAN, outcome \in [BucketIds -> BucketOutcomes] :
       DELETE_rpc(s, ddl_ok, outcome)
  \/ \E s \in Sessions, uid \in AuthUsers, n \in TenantNames, a \in PatchInputs :
       Ready /\ PATCH_select(s, uid, n, a)
  \/ \E s \in Sessions, ddl_ok \in BOOLEAN : PATCH_rpc(s, ddl_ok)
  \/ \E s \in Sessions, uid \in AuthUsers, n \in PostNames,
        variant \in {"bucket", "plain"} :
       Ready /\ POST_select(s, uid, n, variant)
  \/ \E s \in Sessions, ddl_ok \in BOOLEAN : POST_rpc(s, ddl_ok)
  \/ \E s \in Sessions, key \in BOOLEAN, storage_ok \in BOOLEAN :
       createBucketIfMissing_getBucket(s, key, storage_ok)
  \/ \E s \in Sessions, storage_ok \in BOOLEAN :
       createBucketIfMissing_createBucket(s, storage_ok)
  \/ \E s \in Sessions : POST_upsert(s)
  \/ \E s \in Sessions, op \in {"POST_buckets", "POST_link"}, uid \in AuthUsers,
        n \in RouteSchemas, b \in BucketIdInputs, rpc_ok \in BOOLEAN :
       Ready /\ POST_buckets_is_admin(s, op, uid, n, b, rpc_ok)
  \/ \E s \in Sessions, key \in BOOLEAN, storage_ok \in BOOLEAN :
       POST_link_bucketExists(s, key, storage_ok)
  \/ \E s \in Sessions : POST_buckets_insert(s)

SpecRoute == InitRoute /\ [][NextRoute]_vars

\* ------------------------------- tenants on schemas that exist beforehand
\* beta is a schema that was made by hand and holds a table; role authenticated
\* may or may not have been granted USAGE on it
InitReg ==
  /\ admin_users = {[id |-> "u1", role |-> "super_admin", is_active |-> TRUE]}
  /\ tenants = {}
  /\ user_schema_access = {}
  /\ admin_audit_log = <<>>
  /\ schemata = [s \in AllNames |->
                   CASE s = "public" -> {"tenants"}
                     [] s = "auth" -> {"users"}
                     [] s = "beta" -> {"orders"}
                     [] OTHER -> Absent]
  /\ usage \in {{"public"}, {"public", "beta"}}
  /\ now = 0
  /\ last = Call("init", "u1", "public", "u1", "ok")
  /\ sessions = [s \in Sessions |-> Idle]
  /\ columns = SystemColumns \cup {<<"beta", "orders", "id">>}
  /\ foreign_keys = {}
  /\ profiles = {}
  /\ tenant_buckets = {}
  /\ storage = {}
  /\ response = NoResponse

RegNames == {"acme", "beta"}

NextReg ==
  \/ \E uid \in AuthUsers, s \in RegNames, ddl_ok \in BOOLEAN :
       Ready /\ create_tenant_schema(uid, s, ddl_ok) /\ UNCHANGED <<sessions, webvars>>
  \/ \E uid \in AuthUsers, s \in RegNames, ddl_ok \in BOOLEAN :
       Ready /\ suspend_tenant(uid, s, ddl_ok) /\ UNCHANGED <<sessions, objvars, webvars>>
  \/ \E uid \in AuthUsers, s \in RegNames, ddl_ok \in BOOLEAN :
       Ready /\ activate_tenant(uid, s, ddl_ok) /\ UNCHANGED <<sessions, objvars, webvars>>
  \/ \E uid \in AuthUsers, s \in RegNames, ddl_ok \in BOOLEAN :
       Ready /\ delete_tenant_schema(uid, s, ddl_ok) /\ UNCHANGED <<sessions, webvars>>

SpecReg == InitReg /\ [][NextReg]_vars

\* ------------------------------------- status changes next to other tenants
\* The state after create_tenant_schema(acme), create_tenant_schema(beta),
\* suspend_tenant(beta), promote_to_admin(u2, 'admin'), grant_schema_access(u2,
\* 'acme', 'write') and grant_schema_access(u2, 'beta', 'read', expires at 1).
InitLife ==
  /\ admin_users = {[id |-> "u1", role |-> "super_admin", is_active |-> TRUE],
                    [id |-> "u2", role |-> "admin", is_active |-> TRUE]}
  /\ tenants = {[schema_name |-> "acme", status |-> "active", created_by |-> "u1"],
                [schema_name |-> "beta", status |-> "suspended", created_by |-> "u1"]}
  /\ user_schema_access =
       {[user_id |-> "u2", tenant_schema |-> "acme", access_level |-> "write",
         granted_by |-> "u1", granted_at |-> 0, expires_at |-> NULL],
        [user_id |-> "u2", tenant_schema |-> "beta", access_level |-> "read",
         granted_by |-> "u1", granted_at |-> 0, expires_at |-> 1]}
  /\ admin_audit_log =
       << AuditRow("u1", "CREATE", "acme", NoDetails),
          AuditRow("u1", "INIT_EXISTING_EMPTY", "beta", NoDetails),
          AuditRow("u1", "SUSPEND", "beta", NoDetails),
          AuditRow("u1", "PROMOTE_ADMIN", "u2", Details("null", "null", "null", "admin")),
          AuditRow("u1", "GRANT_ACCESS", "access_id", Details("u2", "acme", "write", "null")),
          AuditRow("u1", "GRANT_ACCESS", "access_id", Details("u2", "beta", "read", "null")) >>
  /\ schemata = [n \in AllNames |->
                   CASE n = "public" -> {"tenants"}
                     [] n = "auth" -> {"users"}
                     [] n = "beta" -> DefaultTables
                     [] n = "acme" -> DefaultTables
                     [] OTHER -> Absent]
  /\ usage = {"public", "acme"}
  /\ now = 0
  /\ last = Call("grant", "u1", "beta", "u2", "ok")
  /\ sessions = [s \in Sessions |-> Idle]
  /\ columns = SystemColumns \cup DefaultColumns("acme") \cup DefaultColumns("beta")
  /\ foreign_keys = DefaultForeignKeys("acme") \cup DefaultForeignKeys("beta")
  /\ profiles = {}
  /\ tenant_buckets = {}
  /\ storage = {}
  /\ response = NoResponse

SpecLife == InitLife /\ [][NextConc]_vars

\* --------------------------- grants and the life of a tenant, concurrently
revoke_schema_access_begin(s, uid, target_user_id, target_schema) ==
  /\ sessions[s].pc = "idle"
  /\ Checked(s, "revoke", uid, target_schema, target_user_id, "null", NULL,
             revoke_schema_access_check(uid))
  /\ UNCHANGED <<dbvars, now, last, objvars>>

\* DELETE FROM user_schema_access, the audit INSERT and the end of the transaction
revoke_schema_access_commit(s) ==
  LET c == sessions[s] IN
  /\ c.pc = "checked" /\ c.op = "revoke"
  /\ user_schema_access' = DeleteAccess(c.target, c.schema)
  /\ admin_audit_log' = Append(admin_audit_log,
       AuditRow(c.caller, "REVOKE_ACCESS", "null", Details(c.target, c.schema, "null", "null")))
  /\ Finished(s, "ok")
  /\ UNCHANGED <<admin_users, tenants, schemata, usage, now, last, objvars>>

delete_tenant_schema_begin(s, uid, schema_name) ==
  /\ sessions[s].pc = "idle"
  /\ Checked(s, "delete", uid, schema_name, uid, "null", NULL,
             delete_tenant_schema_check(uid, schema_name))
  /\ UNCHANGED <<dbvars, now, last, objvars>>

\* the audit INSERT, DELETE FROM user_schema_access, DROP SCHEMA IF EXISTS ... CASCADE,
\* DELETE FROM tenants with its cascades, and the end of the transaction
delete_tenant_schema_commit(s, ddl_ok) ==
  LET c == sessions[s] IN
  /\ c.pc = "checked" /\ c.op = "delete"
  /\ IF ~ddl_ok
       THEN Finished(s, "ddl_failed") /\ UNCHANGED <<dbvars, now, last, objvars>>
       ELSE /\ admin_audit_log' = LogDelete(c.caller, c.schema)
            /\ user_schema_access' = DeleteAccessOfSchema(c.schema)
            /\ schemata' = [schemata EXCEPT ![c.schema] = Absent]
            /\ usage' = usage \ {c.schema}
            /\ columns' = ColumnsAfterDrop(c.schema)
            /\ foreign_keys' = ForeignKeysAfterDrop(c.schema)
            /\ profiles' = ProfilesAfterDrop(c.schema)
            /\ tenants' = DeleteTenantRow(c.schema)
            /\ tenant_buckets' = BucketRowsAfterDelete(c.schema)
            /\ Finished(s, "ok")
            /\ UNCHANGED <<admin_users, now, last>>

\* what the two reads of information_schema of create_tenant_schema decide
CreateBranch(p_schema_name) ==
  IF schemata[p_schema_name] = Absent THEN "create"
  ELSE IF Cardinality(schemata[p_schema_name]) > 0 THEN "register"
  ELSE "init"

\* the checks and the reads of information_schema; the branch they choose is kept
\* in the place of the access level, which create_tenant_schema has none
create_tenant_schema_begin(s, uid, p_schema_name) ==
  /\ sessions[s].pc = "idle"
  /\ Checked(s, "create", uid, p_schema_name, uid, CreateBranch(p_schema_name), NULL,
             create_tenant_schema_check(uid, p_schema_name))
  /\ UNCHANGED <<dbvars, now, last, objvars>>

\* The statements after the reads.  The register-only branch runs no DDL.  CREATE
\* SCHEMA fails when the schema exists by now, CREATE TABLE fails when the schema is
\* gone by now or holds one of the three tables.  The three CREATE TABLE statements
\* add their tables to the tables the schema holds by now.
create_tenant_schema_commit(s, ddl_ok) ==
  LET c == sessions[s]
      n == c.schema
  IN
  /\ c.pc = "checked" /\ c.op = "create"
  /\ IF c.level = "register" THEN
       /\ tenants' = InsertTenant(c.caller, n)
       /\ admin_audit_log' = Append(admin_audit_log,
            AuditRow(c.caller, "REGISTER_EXISTING", n, NoDetails))
       /\ Finished(s, "ok")
       /\ UNCHANGED <<admin_users, user_schema_access, schemata, usage, now, last, objvars>>
     ELSE IF \/ ~ddl_ok
             \/ (c.level = "create" /\ schemata[n] # Absent)
             \/ (c.level = "init" /\ schemata[n] = Absent)
             \/ (c.level = "init" /\ schemata[n] # Absent /\ schemata[n] \cap DefaultTables # {})
       THEN Finished(s, "ddl_failed") /\ UNCHANGED <<dbvars, now, last, objvars>>
     ELSE
       /\ schemata' = [schemata EXCEPT ![n] =
                         IF @ = Absent THEN DefaultTables ELSE @ \cup DefaultTables]
       /\ tenants' = InsertTenant(c.caller, n)
       /\ usage' = usage \cup {n}
       /\ admin_audit_log' = Append(admin_audit_log,
            AuditRow(c.caller, IF c.level = "init" THEN "INIT_EXISTING_EMPTY" ELSE "CREATE",
                     n, NoDetails))
       /\ columns' = columns \cup DefaultColumns(n)
       /\ foreign_keys' = foreign_keys \cup DefaultForeignKeys(n)
       /\ Finished(s, "ok")
       /\ UNCHANGED <<admin_users, user_schema_access, now, last, profiles, tenant_buckets>>

\* The state the calls start in: u1 has called create_tenant_schema('acme') and
\* grant_schema_access(u2, 'acme', 'write').
InitRace ==
  /\ admin_users = {[id |-> "u1", role |-> "super_admin", is_active |-> TRUE]}
  /\ tenants = {[schema_name |-> "acme", status |-> "active", created_by |-> "u1"]}
  /\ user_schema_access =
       {[user_id |-> "u2", tenant_schema |-> "acme", access_level |-> "write",
         granted_by |-> "u1", granted_at |-> 0, expires_at |-> NULL]}
  /\ admin_audit_log =
       << AuditRow("u1", "CREATE", "acme", NoDetails),
          AuditRow("u1", "GRANT_ACCESS", "access_id", Details("u2", "acme", "write", "null")) >>
  /\ schemata = [n \in AllNames |->
                   CASE n = "public" -> {"tenants"}
                     [] n = "auth" -> {"users"}
                     [] n = "beta" -> {}
                     [] n = "acme" -> DefaultTables
                     [] OTHER -> Absent]
  /\ usage = {"public", "acme"}
  /\ now = 0
  /\ last = Call("grant", "u1", "acme", "u2", "ok")
  /\ sessions = [s \in Sessions |-> Idle]
  /\ columns = SystemColumns \cup DefaultColumns("acme")
  /\ foreign_keys = DefaultForeignKeys("acme")
  /\ profiles = {}
  /\ tenant_buckets = {}
  /\ storage = {}
  /\ response = NoResponse

\* a session makes calls one after the other
Return(s) ==
  /\ sessions[s].pc = "done"
  /\ sessions' = [sessions EXCEPT ![s] = Idle]
  /\ UNCHANGED <<dbvars, now, last, objvars>>

RaceNames == {"acme", "beta"}

NextRace ==
  \/ \E s \in Sessions, uid \in AuthUsers, t \in Principals, n \in RaceNames,
        l \in ConcLevels :
       Len(admin_audit_log) < MaxAudit + 1
       /\ grant_schema_access_begin(s, uid, t, n, l, NULL) /\ UNCHANGED <<objvars, webvars>>
  \/ \E s \in Sessions : grant_schema_access_commit(s) /\ UNCHANGED <<objvars, webvars>>
  \/ \E s \in Sessions, uid \in AuthUsers, t \in AuthUsers, n \in RaceNames :
       Len(admin_audit_log) < MaxAudit + 1
       /\ revoke_schema_access_begin(s, uid, t, n) /\ UNCHANGED webvars
  \/ \E s \in Sessions : revoke_schema_access_commit(s) /\ UNCHANGED webvars
  \/ \E s \in Sessions, uid \in AuthUsers, n \in RaceNames :
       Len(admin_audit_log) < MaxAudit + 1
       /\ create_tenant_schema_begin(s, uid, n) /\ UNCHANGED webvars
  \/ \E s \in Sessions, ddl_ok \in BOOLEAN :
       create_tenant_schema_commit(s, ddl_ok) /\ UNCHANGED webvars
  \/ \E s \in Sessions, uid \in AuthUsers, n \in RaceNames :
       Len(admin_audit_log) < MaxAudit + 1
       /\ delete_tenant_schema_begin(s, uid, n) /\ UNCHANGED webvars
  \/ \E s \in Sessions, ddl_ok \in BOOLEAN :
       delete_tenant_schema_commit(s, ddl_ok) /\ UNCHANGED webvars
  \/ \E s \in Sessions : Return(s) /\ UNCHANGED webvars

SpecRace == InitRace /\ [][NextRace]_vars

\* =================================================================== claims
\* an admin_users row of p with is_active = true
ActiveAdminRecord(p) ==
  \E a \in admin_users : a.id = p /\ a.is_active

\* admin > write > read
Rank(level) ==
  CASE level = "read" -> 1 [] level = "write" -> 2 [] level = "admin" -> 3 [] OTHER -> 0

Unexpired(g) == g.expires_at = NULL \/ g.expires_at > now

GrantsOf(p, s) ==
  {g \in user_schema_access : g.user_id = p /\ g.tenant_schema = s}

\* C1 (as claimed): whenever a tenant is suspended, has_schema_access is false on it
\* for every principal and level, and create_table, which it guards, is refused.
C1_SuspendedDeniesAll ==
  \A t \in tenants : t.status = "suspended" =>
    \A p \in Principals :
      /\ \A l \in AccessLevels : ~has_schema_access(p, t.schema_name, l)
      /\ \A tn \in NewTableNames : create_table_check(p, t.schema_name, tn) = "access_denied"

\* C2: a principal with an active admin record of any role has access at every level
\* to every registered tenant that is not suspended, whatever grants it holds.
C2_AdminBypass ==
  \A p \in Principals : ActiveAdminRecord(p) =>
    \A t \in tenants : t.status # "suspended" =>
      \A l \in AccessLevels : has_schema_access(p, t.schema_name, l)

\* an active admin that is not a super_admin holds only an expired read grant on an
\* active tenant
C2_Witness ==
  \E a \in admin_users, t \in tenants :
    /\ a.is_active /\ a.role # "super_admin"
    /\ t.status = "active"
    /\ GrantsOf(a.id, t.schema_name) # {}
    /\ \A g \in GrantsOf(a.id, t.schema_name) :
         g.access_level = "read" /\ ~Unexpired(g)

\* C3: for a principal that is not a platform admin, has_schema_access(p, s, l) holds
\* exactly when p has a grant on s that is not expired and whose level is at least l
\* in the order admin > write > read.
C3_GrantOrdering ==
  \A p \in Principals : ~ActiveAdminRecord(p) =>
    \A s \in SchemaNames, l \in AccessLevels :
      has_schema_access(p, s, l) <=>
        \E g \in GrantsOf(p, s) : Unexpired(g) /\ Rank(g.access_level) >= Rank(l)

\* a principal that is no admin holds a grant whose expiry has passed
C3_Witness ==
  \E g \in user_schema_access :
    ~ActiveAdminRecord(g.user_id) /\ ~Unexpired(g) /\ g.access_level \in {"write", "admin"}

\* C4 (as claimed): has_schema_access is false for every principal on a schema name
\* that has no row in tenants, and create_table is refused there.
C4_UnregisteredDenied ==
  \A s \in SchemaNames : ~TenantExists(s) =>
    \A p \in Principals :
      /\ \A l \in AccessLevels : ~has_schema_access(p, s, l)
      /\ \A tn \in NewTableNames : create_table_check(p, s, tn) = "access_denied"

AdminGatedOps == {"create", "suspend", "activate", "grant", "revoke"}

\* C5: a call of create_tenant_schema, suspend_tenant, activate_tenant,
\* grant_schema_access or revoke_schema_access by a caller without an active admin
\* record is refused with "access denied" and changes no table, schema or privilege.
C5_NonAdminRejected ==
  [][(last'.op \in AdminGatedOps /\ ~ActiveAdminRecord(last'.caller))
       => (last'.result = "access_denied" /\ UNCHANGED dbvars)]_vars

\* a caller that is no admin has just been refused a suspend of an active tenant
\* on which grants exist
C5_Witness ==
  /\ last.op = "suspend"
  /\ ~ActiveAdminRecord(last.caller)
  /\ last.result = "access_denied"
  /\ TenantHasStatus(last.schema, "active")
  /\ \E g \in user_schema_access : g.tenant_schema = last.schema

\* C6: delete_tenant_schema called by an active admin whose role is admin or viewer
\* is refused with "access denied" and changes no table, schema or privilege.
C6_DeleteNeedsSuperAdmin ==
  [][(/\ last'.op = "delete"
      /\ \E a \in admin_users :
           a.id = last'.caller /\ a.is_active /\ a.role \in {"admin", "viewer"})
       => (last'.result = "access_denied" /\ UNCHANGED dbvars)]_vars

\* an active admin of role admin has just been refused the delete of a registered
\* tenant on which a grant exists
C6_Witness ==
  /\ last.op = "delete"
  /\ last.result = "access_denied"
  /\ \E a \in admin_users : a.id = last.caller /\ a.is_active /\ a.role = "admin"
  /\ TenantExists(last.schema)
  /\ \E g \in user_schema_access : g.tenant_schema = last.schema

\* C7: after a delete_tenant_schema that succeeded, the tenant has no row in tenants
\* and no row of user_schema_access refers to it.
C7_DeleteRemovesTenantAndGrants ==
  (last.op = "delete" /\ last.result = "ok") =>
    /\ ~TenantExists(last.schema)
    /\ \A g \in user_schema_access : g.tenant_schema # last.schema

\* a delete has succeeded on a tenant that had a grant: the log is create, grant, delete
C7_Witness ==
  /\ last.op = "delete" /\ last.result = "ok"
  /\ Len(admin_audit_log) = 3
  /\ admin_audit_log[2].action = "GRANT_ACCESS"
  /\ admin_audit_log[2].details.schema = last.schema
  /\ admin_audit_log[3].action = "DELETE"
  /\ admin_audit_log[3].resource_id = last.schema

\* C8 (as claimed): when a statement of delete_tenant_schema after the audit INSERT
\* fails, the DELETE audit row of that call is in admin_audit_log afterwards.
C8_AuditSurvivesFailedDelete ==
  (last.op = "delete" /\ last.result = "ddl_failed") =>
    \E i \in 1..Len(admin_audit_log) :
      /\ admin_audit_log[i].action = "DELETE"
      /\ admin_audit_log[i].resource_id = last.schema
      /\ admin_audit_log[i].user_id = last.caller

\* C9: suspend_tenant by an admin on a suspended tenant, and activate_tenant by an
\* admin on an active tenant, are refused with "already ..." and change no table,
\* schema or privilege.
C9_SetStatusNotIdempotent ==
  [][(/\ ActiveAdminRecord(last'.caller)
      /\ \/ (last'.op = "suspend" /\ TenantHasStatus(last'.schema, "suspended"))
         \/ (last'.op = "activate" /\ TenantHasStatus(last'.schema, "active")))
       => (last'.result = "already" /\ UNCHANGED dbvars)]_vars

\* an admin has just been refused the suspension of a suspended tenant
C9_Witness ==
  /\ last.op = "suspend"
  /\ last.result = "already"
  /\ TenantHasStatus(last.schema, "suspended")
  /\ usage \cap {last.schema} = {}

\* C10: revoke_schema_access by an admin raises no error, whether or not the grant or
\* the tenant exists, and leaves no row of user_schema_access for (target, schema).
C10_RevokeIdempotent ==
  [][(last'.op = "revoke" /\ ActiveAdminRecord(last'.caller))
       => (/\ last'.result = "ok"
           /\ \A g \in user_schema_access' :
                ~(g.user_id = last'.target /\ g.tenant_schema = last'.schema))]_vars

\* the second of two revokes in a row of the same (target, schema) has completed
C10_Witness ==
  /\ last.op = "revoke" /\ last.result = "ok"
  /\ Len(admin_audit_log) >= 2
  /\ LET n == Len(admin_audit_log) IN
       /\ admin_audit_log[n].action = "REVOKE_ACCESS"
       /\ admin_audit_log[n - 1].action = "REVOKE_ACCESS"
       /\ admin_audit_log[n].details = admin_audit_log[n - 1].details
       /\ admin_audit_log[n].details.target_user = last.target
       /\ admin_audit_log[n].details.schema = last.schema

\* C11: revoke_admin whose target is the caller is refused, with "cannot revoke your
\* own admin access" for a super_admin and with "access denied" for every other
\* caller, and changes no admin record, no other table and not the audit log.
C11_SelfRevokeFails ==
  [][(last'.op = "revoke_admin" /\ last'.target = last'.caller)
       => (/\ last'.result = (IF is_super_admin(last'.caller) THEN "self" ELSE "access_denied")
           /\ UNCHANGED dbvars)]_vars

\* a super_admin has just been refused the revocation of its own admin record while
\* another active admin exists
C11_Witness ==
  /\ last.op = "revoke_admin"
  /\ last.target = last.caller
  /\ last.result = "self"
  /\ is_super_admin(last.caller)
  /\ \E a \in admin_users : a.id # last.caller /\ a.is_active

\* the row of user_schema_access that the grant call c writes
GrantOfCall(c) ==
  [user_id |-> c.target, tenant_schema |-> c.schema, access_level |-> c.level,
   granted_by |-> c.caller, granted_at |-> c.at, expires_at |-> c.expires_at]

\* the sessions whose grant call for (p, n) has committed
GrantsCommitted(p, n) ==
  {s \in Sessions : /\ sessions[s].pc = "done" /\ sessions[s].op = "grant"
                    /\ sessions[s].result = "ok"
                    /\ sessions[s].target = p /\ sessions[s].schema = n}

\* C12: user_schema_access holds at most one row per (user_id, tenant_schema); once
\* grant calls for a pair have committed, whether one after the other or concurrently,
\* the row of the pair is the row one of these calls wrote, level, expiry, granted_by
\* and granted_at together, and the row that was there before is gone.
C12_OneGrantPerPair ==
  \A p \in Principals, n \in SchemaNames :
    /\ Cardinality(GrantsOf(p, n)) <= 1
    /\ GrantsCommitted(p, n) # {} =>
         \E s \in GrantsCommitted(p, n) : GrantsOf(p, n) = {GrantOfCall(sessions[s])}

\* two grant calls for a pair that had a grant already were in flight together and
\* both have committed; they differ in level, expiry, caller and time
C12_Witness ==
  /\ GrantsCommitted("u2", "acme") = Sessions
  /\ sessions["s1"].level # sessions["s2"].level
  /\ sessions["s1"].expires_at # sessions["s2"].expires_at
  /\ sessions["s1"].caller # sessions["s2"].caller
  /\ sessions["s1"].at = 0 /\ sessions["s2"].at = 0 /\ now = 1
  /\ Len(admin_audit_log) = 5

\* the level of the grant of (p, n) in the table access, "null" when there is none
LevelIn(access, p, n) ==
  IF \E g \in access : g.user_id = p /\ g.tenant_schema = n
    THEN (CHOOSE g \in access : g.user_id = p /\ g.tenant_schema = n).access_level
    ELSE "null"

\* some key of the details d holds the level
DetailsHold(d, level) ==
  \E k \in DOMAIN d : d[k] = level

\* C13 (as claimed): a grant_schema_access or revoke_schema_access call that succeeds
\* appends exactly one audit row, of action GRANT_ACCESS or REVOKE_ACCESS, whose
\* details hold the level the grant of the pair had before the call and the level it
\* has after the call.
C13_AuditHoldsBeforeAfterLevel ==
  [][(last'.op \in {"grant", "revoke"} /\ last'.result = "ok")
       => (/\ Len(admin_audit_log') = Len(admin_audit_log) + 1
           /\ LET e == admin_audit_log'[Len(admin_audit_log')] IN
                /\ e.action = (IF last'.op = "grant" THEN "GRANT_ACCESS" ELSE "REVOKE_ACCESS")
                /\ DetailsHold(e.details, LevelIn(user_schema_access, last'.target, last'.schema))
                /\ DetailsHold(e.details, LevelIn(user_schema_access', last'.target, last'.schema)))]_vars

\* the names the claim calls reserved
ClaimReserved(n) ==
  \/ n \in {"public", "auth", "storage", "graphql", "realtime", "supabase"}
  \/ StartsWith(NameChars(n), <<"p","g","_">>)
  \/ StartsWith(NameChars(n), <<"s","u","p","a","b","a","s","e","_">>)

\* n matches ^[a-z][a-z0-9_]{2,62}$
ClaimFormat(n) ==
  LET c == NameChars(n) IN
    /\ Len(c) >= 3 /\ Len(c) <= 63
    /\ c[1] \in Lower
    /\ \A i \in 2..Len(c) : c[i] \in (Lower \cup Digits \cup {"_"})

ValidationErrors == {"invalid_name", "invalid_length", "reserved"}

\* C14 (as claimed): a create, through the route or by the procedure and by any
\* caller, with a name that is reserved or does not match ^[a-z][a-z0-9_]{2,62}$ is
\* refused with a validation error and changes no schema, no tenant row and not the
\* audit log.
C14_BadNameRejected ==
  [][(/\ last'.op \in {"POST", "POST_select", "create"}
      /\ (ClaimReserved(last'.schema) \/ ~ClaimFormat(last'.schema)))
       => (/\ UNCHANGED dbvars
           /\ last'.result \in ValidationErrors)]_vars

\* C15 (as claimed): a create_tenant_schema call by an admin that succeeds leaves the
\* tenant registered with status active and appends exactly one audit row, of action
\* CREATE.
C15_CreateActiveAndAudited ==
  [][(last'.op = "create" /\ last'.result = "ok" /\ is_admin(last'.caller))
       => (/\ \E t \in tenants' : t.schema_name = last'.schema /\ t.status = "active"
           /\ Len(admin_audit_log') = Len(admin_audit_log) + 1
           /\ admin_audit_log'[Len(admin_audit_log')].action = "CREATE"
           /\ admin_audit_log'[Len(admin_audit_log')].resource_id = last'.schema)]_vars

\* C16 (as claimed): a create by an admin, through the route or by the procedure,
\* with a schema name that is registered is refused as a conflict and leaves the
\* tenants table and the audit log as they were.
C16_DuplicateCreateConflict ==
  [][(/\ last'.op \in {"POST", "create"}
      /\ is_admin(last'.caller)
      /\ TenantExists(last'.schema))
       => (/\ last'.result = "conflict"
           /\ UNCHANGED <<tenants, admin_audit_log>>)]_vars

\* the schema names of which a delete_tenant_schema call has succeeded
DeletedNames ==
  {admin_audit_log[i].resource_id :
     i \in {j \in 1..Len(admin_audit_log) : admin_audit_log[j].action = "DELETE"}}

\* C17 (as claimed): a schema name whose tenant has been deleted has no row in
\* tenants, active or suspended, ever after.
C17_DeletedIsTerminal ==
  \A n \in DeletedNames : ~TenantExists(n)

IsPrefix(a, b) ==
  /\ Len(a) <= Len(b)
  /\ \A i \in 1..Len(a) : a[i] = b[i]

\* C18: every step, a call that succeeds (delete_tenant_schema included), a call that
\* is refused or fails, or the passing of time, leaves the audit log before it as a
\* prefix of the audit log after it.
C18_AuditAppendOnly ==
  [][IsPrefix(admin_audit_log, admin_audit_log')]_vars

\* a tenant that has a history in the audit log has just been deleted: its CREATE and
\* SUSPEND rows are still there, in front of the DELETE row
C18_Witness ==
  /\ last.op = "delete" /\ last.result = "ok"
  /\ Len(admin_audit_log) = 3
  /\ admin_audit_log[1].action = "CREATE" /\ admin_audit_log[1].resource_id = last.schema
  /\ admin_audit_log[2].action = "SUSPEND" /\ admin_audit_log[2].resource_id = last.schema
  /\ admin_audit_log[3].action = "DELETE" /\ admin_audit_log[3].resource_id = last.schema
  /\ ~TenantExists(last.schema)

\* the sessions whose call was op on the schema n and has ended with result
Ended(op, n, result) ==
  {s \in Sessions : /\ sessions[s].pc = "done" /\ sessions[s].op = op
                    /\ sessions[s].schema = n /\ sessions[s].result = result}

\* C19 (as claimed): of two suspend_tenant calls, or two activate_tenant calls, on
\* the same tenant that were in flight together, at most one succeeds; when one has
\* succeeded and the other has ended without a failure of its DDL, the other was
\* refused with "already ...".
C19_OneStatusChangeWins ==
  \A op \in {"suspend", "activate"}, n \in TenantNames :
    /\ Cardinality(Ended(op, n, "ok")) <= 1
    /\ (Cardinality(Ended(op, n, "ok") \cup Ended(op, n, "already")) = 2
          /\ Ended(op, n, "ok") # {})
         => Cardinality(Ended(op, n, "already")) = 1

\* the calls that change tenants, grants or schemas
StateChangingOps == {"create", "suspend", "activate", "grant", "revoke", "create_table"}

\* C20 (as claimed): a state-changing call by a caller whose active admin record has
\* the role viewer fails and changes no tenant, grant, schema or admin record.
C20_ViewerReadOnly ==
  [][(/\ last'.op \in StateChangingOps
      /\ \E a \in admin_users : a.id = last'.caller /\ a.is_active /\ a.role = "viewer")
       => (/\ last'.result # "ok"
           /\ UNCHANGED <<tenants, user_schema_access, schemata, usage, admin_users>>)]_vars

\* ---------------------------------------------------------------------- C21
DdlOps == {"create_table", "add_column", "add_foreign_key", "drop_column", "drop_foreign_key"}

\* p is no platform admin and its unexpired grant on the schema is read or write
HoldsOnlyReadOrWrite(p, schema) ==
  /\ ~ActiveAdminRecord(p)
  /\ GrantsOf(p, schema) # {}
  /\ \A g \in GrantsOf(p, schema) : Unexpired(g) /\ g.access_level \in {"read", "write"}

\* C21, as claimed: a call of create_table, add_column, add_foreign_key, drop_column or
\* drop_foreign_key by a principal that is no admin and whose only unexpired grant
\* on the target schema is read or write is denied, and the tables, columns and
\* foreign keys of the schema are unchanged.
C21_DdlNeedsAdminLevel ==
  [][(last'.op \in DdlOps /\ HoldsOnlyReadOrWrite(last'.caller, last'.schema))
       => (last'.result = "access_denied" /\ UNCHANGED <<schemata, columns, foreign_keys>>)]_vars

\* ---------------------------------------------------------------------- C22
\* C22, as claimed: a call of ensure_user_profile by a user of auth.users on a
\* registered tenant raises no error; when the user has no profile in the tenant it
\* adds exactly one profile and returns it with is_new = true; when the user has a
\* profile it adds none and returns that profile with is_new = false; the tenant holds
\* at most one profile of the user afterwards.
C22_EnsureIdempotent ==
  [][(last'.op = "ensure_user_profile" /\ last'.caller \in AuthUsers
      /\ TenantExists(last'.schema))
       => LET before == ProfilesOf(last'.schema, last'.caller) IN
          /\ last'.result = "ok"
          /\ IF before = {}
               THEN /\ response'.is_new = TRUE
                    /\ profiles' = profiles \cup {response'.profile}
                    /\ response'.profile \notin profiles
                    /\ response'.profile.auth_user_id = last'.caller
               ELSE /\ response'.is_new = FALSE
                    /\ profiles' = profiles
                    /\ response'.profile \in before
          /\ Cardinality({pr \in profiles' : pr.schema = last'.schema
                                             /\ pr.auth_user_id = last'.caller}) = 1]_vars

\* ---------------------------------------------------------------------- C29
\* C29, as claimed: a call of ensure_user_profile or create_user_profile by a caller
\* that is no platform admin and holds no unexpired grant on the target schema ends
\* in an error and inserts no row into the users table of the schema.
C29_ProfileOnlyWithAccess ==
  [][(last'.op \in {"ensure_user_profile", "create_user_profile"}
      /\ ~has_schema_access(last'.caller, last'.schema, "read"))
       => (last'.result # "ok" /\ profiles' = profiles)]_vars

\* ---------------------------------------------------------------------- C23
\* the buckets linked to the schema before the handler ran
LinkedBuckets(schema) ==
  {tb.bucket_id : tb \in {r \in tenant_buckets : r.tenant_schema = schema}}

\* C23, as claimed: when DELETE /api/tenants/{schema} has dropped the schema and
\* linked buckets are left in the storage, the answer is an error that lists
\* exactly these buckets, and the schema stays dropped.
C23_PartialBucketFailureListed ==
  [][(/\ \E s \in Sessions :
           /\ sessions[s].op = "DELETE" /\ sessions[s].level = "bucket"
           /\ sessions'[s] = Idle
      /\ last'.op = "delete" /\ last'.result = "ok"
      /\ LinkedBuckets(last'.schema) \cap storage' # {})
       => (/\ response'.status = 500
           /\ response'.failed = LinkedBuckets(last'.schema) \cap storage'
           /\ schemata'[last'.schema] = Absent
           /\ ~\E t \in tenants' : t.schema_name = last'.schema)]_vars

\* ---------------------------------------------------------------------- C24
\* C24: every registered tenant with status active refers to a schema that exists,
\* in every reachable state, concurrent calls of create_tenant_schema and
\* delete_tenant_schema included.
C24_NoOrphanedTenant ==
  \A t \in tenants : t.status = "active" => schemata[t.schema_name] # Absent

\* ---------------------------------------------------------------------- C25
\* p has an admin_users row, and it is deactivated
Deactivated(p) ==
  \E a \in admin_users : a.id = p /\ ~a.is_active

\* every admin-gated procedure refuses p, whatever its arguments
RefusedEverywhere(p) ==
  /\ \A n \in CallNames : create_tenant_schema_check(p, n) = "access_denied"
  /\ \A n \in CallNames : suspend_tenant_check(p, n) = "access_denied"
  /\ \A n \in CallNames : activate_tenant_check(p, n) = "access_denied"
  /\ \A n \in CallNames : delete_tenant_schema_check(p, n) = "access_denied"
  /\ \A t \in Principals, n \in CallNames, l \in LevelInputs :
       grant_schema_access_check(p, t, n, l) = "access_denied"
  /\ revoke_schema_access_check(p) = "access_denied"
  /\ \A r \in RoleInputs : promote_to_admin_check(p, r) = "access_denied"
  /\ \A t \in Principals : revoke_admin_check(p, t) = "access_denied"

\* C25: a principal whose admin record is deactivated is refused by create, suspend,
\* activate, delete, grant, revoke, promote_to_admin and revoke_admin for as long as
\* the record stays deactivated; right after a revoke_admin that succeeded every
\* record of its target is deactivated; and every principal that was promoted still
\* has a record, revoked or not.
C25_RevokedAdminLocked ==
  /\ \A p \in Principals : Deactivated(p) => RefusedEverywhere(p)
  /\ (last.op = "revoke_admin" /\ last.result = "ok")
       => \A a \in admin_users : a.id = last.target => ~a.is_active
  /\ \A i \in 1..Len(admin_audit_log) :
       (admin_audit_log[i].action = "PROMOTE_ADMIN"
        /\ admin_audit_log[i].resource_id \in AuthUsers)
         => \E a \in admin_users : a.id = admin_audit_log[i].resource_id

\* u2 was promoted and then revoked, and its create call has just been refused
C25_Witness ==
  /\ last.op = "create" /\ last.caller = "u2" /\ last.result = "access_denied"
  /\ Deactivated("u2")
  /\ \E i \in 1..Len(admin_audit_log) :
       admin_audit_log[i].action = "REVOKE_ADMIN" /\ admin_audit_log[i].resource_id = "u2"

\* ---------------------------------------------------------------------- C27
\* C27, as claimed: in every state reached from one with an active super_admin by
\* calls of promote_to_admin and revoke_admin (and the other procedures), some
\* admin_users row has role super_admin and is_active = true.
C27_SuperAdminRemains ==
  \E a \in admin_users : a.role = "super_admin" /\ a.is_active

\* ---------------------------------------------------------------------- C28
\* C28, as claimed: for every registered tenant, status is active iff role
\* authenticated holds USAGE on the schema of the tenant (and suspended iff it does
\* not), a tenant registered from a schema that existed before included.
C28_StatusMatchesUsage ==
  \A t \in tenants : (t.status = "active") <=> (t.schema_name \in usage)

\* ---------------------------------------------------------------------- C26
\* session s ends a suspend_tenant or activate_tenant with success in this step
StatusChangeCommits(s) ==
  /\ sessions[s].pc = "checked"
  /\ sessions[s].op \in {"suspend", "activate"}
  /\ sessions'[s].pc = "done"
  /\ sessions'[s].result = "ok"

\* C26: a suspend_tenant or activate_tenant on tenant T that succeeds changes the
\* status of T and the USAGE privilege on the schema of T and appends one audit row
\* about T; every access grant (those on T included), every admin record, every
\* other tenant, every other privilege and every schema are as before.
C26_StatusChangeFrame ==
  [][\A s \in Sessions : StatusChangeCommits(s) =>
       LET T == sessions[s].schema
           status == IF sessions[s].op = "suspend" THEN "suspended" ELSE "active"
       IN
       /\ user_schema_access' = user_schema_access
       /\ admin_users' = admin_users
       /\ {t \in tenants' : t.schema_name # T} = {t \in tenants : t.schema_name # T}
       /\ {t \in tenants' : t.schema_name = T} =
            {[t EXCEPT !.status = status] : t \in {r \in tenants : r.schema_name = T}}
       /\ usage' \ {T} = usage \ {T}
       /\ (T \in usage') <=> (status = "active")
       /\ schemata' = schemata
       /\ Len(admin_audit_log') = Len(admin_audit_log) + 1
       /\ SubSeq(admin_audit_log', 1, Len(admin_audit_log)) = admin_audit_log
       /\ admin_audit_log'[Len(admin_audit_log')].resource_id = T
       /\ UNCHANGED <<columns, foreign_keys, profiles, tenant_buckets>>]_vars

\* acme was suspended by one session and activated again by the other: the grant
\* of u2 on acme is the row it was, and beta and the grant on it are as they were
C26_Witness ==
  /\ \E s1, s2 \in Sessions :
       /\ sessions[s1].pc = "done" /\ sessions[s1].op = "suspend" /\ sessions[s1].result = "ok"
       /\ sessions[s2].pc = "done" /\ sessions[s2].op = "activate" /\ sessions[s2].result = "ok"
  /\ TenantHasStatus("acme", "active")
  /\ TenantHasStatus("beta", "suspended")
  /\ [user_id |-> "u2", tenant_schema |-> "acme", access_level |-> "write",
      granted_by |-> "u1", granted_at |-> 0, expires_at |-> NULL] \in user_schema_access
  /\ Cardinality(user_schema_access) = 2


\* C30: under every interleaving of grant_schema_access, revoke_schema_access,
\* create_tenant_schema and delete_tenant_schema, every row of user_schema_access
\* names a tenant that is in the registry and a principal that exists.
C30_GrantsReferenceTenant ==
  \A g \in user_schema_access :
    TenantExists(g.tenant_schema) /\ g.user_id \in AuthUsers

\* a grant on a tenant passed its checks, the delete of the tenant committed first,
\* and the grant ended on the foreign key with no row written
C30_Witness ==
  \E s, d \in Sessions :
    /\ s # d
    /\ sessions[s].op = "grant" /\ sessions[s].result = "fk_violation"
    /\ sessions[d].op = "delete" /\ sessions[d].result = "ok"
    /\ sessions[d].schema = sessions[s].schema
    /\ ~TenantExists(sessions[s].schema)
    /\ ~\E g \in user_schema_access : g.tenant_schema = sessions[s].schema
====
